---- MODULE Spec2Model ----
(***************************************************************************)
(* Verification model of the QAA-Insight feedback analytics backend: the   *)
(* name normaliser and grouping engine (services/nameNormalizer.js), the   *)
(* filter / aggregation requests of AnalyticsService (services/            *)
(* analytics.js), the merge overlay of the dashboard, and the cache and    *)
(* duplicate-fetch guard (CacheService, GoogleSheetsService.getSheetData). *)
(*                                                                         *)
(* A JavaScript string is modelled as a sequence of one-character strings. *)
(***************************************************************************)
EXTENDS Integers, Sequences, FiniteSets, TLC

VARIABLES
    nmIn,       \* SpecNorm: the raw name handed to normalizeName
    nmOnce,     \* SpecNorm: normalizeName(nmIn)
    nmTwice,    \* SpecNorm: normalizeName(normalizeName(nmIn))
    nmPc,       \* SpecNorm: "in" | "once" | "twice"
    grIn,       \* SpecGroup: the variant list handed to groupSimilarNames
    grThreshold,\* SpecGroup: the threshold of the call, in hundredths
    grOut,      \* SpecGroup: the groups returned
    grPc,       \* SpecGroup: "in" | "done"
    dsData,         \* SpecData: the sheet snapshot {headers, data, totalRows}
    dsNameMapping,  \* SpecData: the cached namemapping_ entry, Null or Some
    dsMerged,       \* SpecData: the dashboard's mergedNames overlay
    dsDynamicFilters,\* SpecData: the dashboard's dynamicFilters
    dsFilterState,  \* SpecData: the dashboard's filterState
    dsClicks,       \* SpecData: number of filter clicks made so far
    dsResp,         \* SpecData: the last response received
    cache,          \* Spec: CacheService.cache, key -> Null or Some([value, ttl])
    pendingFetches, \* Spec: GoogleSheetsService.pendingFetches for the sheet
    fetches,        \* Spec: upstream fetchSheetDataRaw calls in flight
    tasks,          \* Spec: asynchronous computeAnalytics runs in flight
    upstream,       \* Spec: version of the spreadsheet at Google
    issued,         \* Spec: number of requests received so far
    lastGood,       \* Spec: per analytics key, the last value stored in it
    lastEvent,      \* Spec: what the last step did and returned
    afData,         \* SpecFilter: the rows handed to applyFilters
    afFilters,      \* SpecFilter: the filters object handed to applyFilters
    afOut,          \* SpecFilter: the rows returned
    afPc,           \* SpecFilter: "in" | "done"
    ccCache,        \* SpecClear: the keys CacheService.cache holds
    ccCleared,      \* SpecClear: urls cleared and not requested since
    ccLast,         \* SpecClear: what the last step did
    mgMerged,       \* SpecMerge: the dashboard's mergedNames overlay
    mgPersisted,    \* SpecMerge: user.mergedNames[sheetId] in the database
    mgFilterState,  \* SpecMerge: the dashboard's filterState
    mgOps,          \* SpecMerge: number of operations made so far
    mgLast,         \* SpecMerge: what the last step did
    ttData,         \* SpecTrend: the rows handed to calculateTimeTrends
    ttOut,          \* SpecTrend: the trend returned
    ttPc,           \* SpecTrend: "in" | "done"
    doOptions,      \* SpecDisplay: the raw option list of a category
    doMerged,       \* SpecDisplay: the mergedNames overlay
    doOut,          \* SpecDisplay: the display options returned
    doPc,           \* SpecDisplay: "in" | "done"
    smTarget,       \* SpecSimilar: the name selected in the merge dialog
    smOther,        \* SpecSimilar: another option of the category
    smThreshold,    \* SpecSimilar: the threshold, in hundredths
    smSuggested,    \* SpecSimilar: what findSimilarNames returned
    smGroups,       \* SpecSimilar: what groupSimilarNames returned
    smPc,           \* SpecSimilar: "in" | "suggested" | "grouped"
    qcHeader,       \* SpecQuestion: the header of the column looked at
    qcCells,        \* SpecQuestion: the cells of the column, one per row
    qcColumns,      \* SpecQuestion: what identifyQuestionColumns returned
    qcScores,       \* SpecQuestion: what calculateQuestionScores returned
    qcPc,           \* SpecQuestion: "in" | "identified" | "scored"
    rwRows,         \* SpecRows: the row objects of the cached sheet data, by address
    rwArray,        \* SpecRows: the cached data array: the addresses of its rows
    rwFetched,      \* SpecRows: the rows as fetchSheetDataRaw returned them
    rwLast,         \* SpecRows: what the last request did
    ivReads,        \* SpecInvalidate: what each fetch in flight has read upstream
    ivOld,          \* SpecInvalidate: the runs and the reads that an invalidation found in flight
    ivClears,       \* SpecInvalidate: the invalidations so far
    ivLast,         \* SpecInvalidate: the entries the last settled fetch made its runs store
    ovDoc,          \* SpecOverlay: user.mergedNames as stored in the database
    ovReqs,         \* SpecOverlay: the merged-names requests between their load and their save
    ovIssued,       \* SpecOverlay: the requests so far
    ovLast          \* SpecOverlay: what the last step did

normVars == <<nmIn, nmOnce, nmTwice, nmPc>>
groupVars == <<grIn, grThreshold, grOut, grPc>>

dataVars == <<dsData, dsNameMapping, dsMerged, dsDynamicFilters,
              dsFilterState, dsClicks, dsResp>>

cacheVars == <<cache, pendingFetches, fetches, tasks, upstream, issued,
               lastGood, lastEvent>>

filterVars == <<afData, afFilters, afOut, afPc>>
clearVars == <<ccCache, ccCleared, ccLast>>
mergeVars == <<mgMerged, mgPersisted, mgFilterState, mgOps, mgLast>>
trendVars == <<ttData, ttOut, ttPc>>
displayVars == <<doOptions, doMerged, doOut, doPc>>
similarVars == <<smTarget, smOther, smThreshold, smSuggested, smGroups, smPc>>
questionVars == <<qcHeader, qcCells, qcColumns, qcScores, qcPc>>
rowVars == <<rwRows, rwArray, rwFetched, rwLast>>
invalidateVars == <<ivReads, ivOld, ivClears, ivLast>>
overlayVars == <<ovDoc, ovReqs, ovIssued, ovLast>>

\* the variables of the specifications above, and of those below
baseVars == <<normVars, groupVars, dataVars, cacheVars, filterVars, clearVars,
              mergeVars>>
laterVars == <<trendVars, displayVars, similarVars, questionVars, rowVars, invalidateVars, overlayVars>>

\* per specification below, the variables of all the others
trendRest == <<baseVars, displayVars, similarVars, questionVars, rowVars, invalidateVars, overlayVars>>
displayRest == <<baseVars, trendVars, similarVars, questionVars, rowVars, invalidateVars, overlayVars>>
similarRest == <<baseVars, trendVars, displayVars, questionVars, rowVars, invalidateVars, overlayVars>>
questionRest == <<baseVars, trendVars, displayVars, similarVars, rowVars, invalidateVars, overlayVars>>
rowRest == <<baseVars, trendVars, displayVars, similarVars, questionVars, invalidateVars, overlayVars>>
invalidateRest == <<baseVars, trendVars, displayVars, similarVars, questionVars, rowVars, overlayVars>>
overlayRest == <<baseVars, trendVars, displayVars, similarVars, questionVars, rowVars, invalidateVars>>

vars == <<nmIn, nmOnce, nmTwice, nmPc, grIn, grThreshold, grOut, grPc,
          dsData, dsNameMapping, dsMerged, dsDynamicFilters,
          dsFilterState, dsClicks, dsResp,
          cache, pendingFetches, fetches, tasks, upstream, issued,
          lastGood, lastEvent,
          afData, afFilters, afOut, afPc, ccCache, ccCleared, ccLast,
          mgMerged, mgPersisted, mgFilterState, mgOps, mgLast,
          laterVars>>

----------------------------------------------------------------------------
(* JavaScript string primitives                                            *)

UpperChars == <<"A","B","C","D","E","F","G","H","I","J","K","L","M",
                "N","O","P","Q","R","S","T","U","V","W","X","Y","Z">>
LowerChars == <<"a","b","c","d","e","f","g","h","i","j","k","l","m",
                "n","o","p","q","r","s","t","u","v","w","x","y","z">>

LowerChar(c) ==
    IF \E i \in 1..26 : UpperChars[i] = c
    THEN LowerChars[CHOOSE i \in 1..26 : UpperChars[i] = c]
    ELSE c

UpperChar(c) ==
    IF \E i \in 1..26 : LowerChars[i] = c
    THEN UpperChars[CHOOSE i \in 1..26 : LowerChars[i] = c]
    ELSE c

toLowerCase(s) == [i \in 1..Len(s) |-> LowerChar(s[i])]

IsSpace(c) == c = " "

RECURSIVE TrimStart(_)
TrimStart(s) ==
    IF s # <<>> /\ IsSpace(Head(s)) THEN TrimStart(Tail(s)) ELSE s

RECURSIVE TrimEnd(_)
TrimEnd(s) ==
    IF s # <<>> /\ IsSpace(s[Len(s)])
    THEN TrimEnd(SubSeq(s, 1, Len(s) - 1))
    ELSE s

trim(s) == TrimEnd(TrimStart(s))

\* s.replace(/\s+/g, ' ')
RECURSIVE CollapseSpaces(_)
CollapseSpaces(s) ==
    IF s = <<>> THEN <<>>
    ELSE IF IsSpace(Head(s)) THEN <<" ">> \o CollapseSpaces(TrimStart(s))
    ELSE <<Head(s)>> \o CollapseSpaces(Tail(s))

\* s.replace(/\.\s*/g, ' ')
RECURSIVE ReplaceDotSpaces(_)
ReplaceDotSpaces(s) ==
    IF s = <<>> THEN <<>>
    ELSE IF Head(s) = "." THEN <<" ">> \o ReplaceDotSpaces(TrimStart(Tail(s)))
    ELSE <<Head(s)>> \o ReplaceDotSpaces(Tail(s))

\* s.replace(/\s*\.\s*/g, ' '): a match starts where a (possibly empty) run
\* of spaces is followed by a dot
RECURSIVE ReplaceSpacesDotSpaces(_)
ReplaceSpacesDotSpaces(s) ==
    IF s = <<>> THEN <<>>
    ELSE LET rest == TrimStart(s)
         IN  IF rest # <<>> /\ Head(rest) = "."
             THEN <<" ">> \o ReplaceSpacesDotSpaces(TrimStart(Tail(rest)))
             ELSE <<Head(s)>> \o ReplaceSpacesDotSpaces(Tail(s))

\* s.split(' ').filter(w => w.length > 0)
RECURSIVE SplitWords(_, _)
SplitWords(s, word) ==
    IF s = <<>> THEN (IF word = <<>> THEN <<>> ELSE <<word>>)
    ELSE IF Head(s) = " "
         THEN (IF word = <<>> THEN <<>> ELSE <<word>>) \o SplitWords(Tail(s), <<>>)
         ELSE SplitWords(Tail(s), Append(word, Head(s)))

\* w.replace(/\./g, '')
RemoveDots(w) == SelectSeq(w, LAMBDA c : c # ".")

\* words.join(' ')
RECURSIVE JoinWords(_)
JoinWords(words) ==
    IF words = <<>> THEN <<>>
    ELSE IF Len(words) = 1 THEN words[1]
    ELSE words[1] \o <<" ">> \o JoinWords(Tail(words))

\* word.charAt(0).toUpperCase() + word.slice(1).toLowerCase()
Capitalize(word) ==
    IF word = <<>> THEN <<>>
    ELSE <<UpperChar(Head(word))>> \o toLowerCase(Tail(word))

\* a.includes(b)
includes(a, b) ==
    \E i \in 1..(Len(a) - Len(b) + 1) : SubSeq(a, i, i + Len(b) - 1) = b

----------------------------------------------------------------------------
(* services/nameNormalizer.js                                              *)

PREFIXES == {
    <<"m","r">>, <<"m","r",".">>, <<"m","r","s">>, <<"m","r","s",".">>,
    <<"m","s">>, <<"m","s",".">>, <<"d","r">>, <<"d","r",".">>,
    <<"p","r","o","f">>, <<"p","r","o","f",".">>,
    <<"p","r","o","f","e","s","s","o","r">>,
    <<"s","h","r","i">>, <<"s","m","t">>, <<"k","u","m","a","r","i">> }

SUFFIXES == {
    <<"s","i","r">>, <<"m","a","m">>, <<"m","a","'","a","m">>,
    <<"m","a","d","a","m">>, <<"m","a","d","e","m">>, <<"m","e","m">>,
    <<"m","a","a","m">>, <<"s","a","h","a","b">>, <<"s","a","h","i","b">>,
    <<"j","i">>, <<"g">> }

StripPrefix(words) ==
    IF Len(words) > 1 /\ RemoveDots(words[1]) \in PREFIXES
    THEN Tail(words) ELSE words

StripSuffix(words) ==
    IF Len(words) > 1 /\ RemoveDots(words[Len(words)]) \in SUFFIXES
    THEN SubSeq(words, 1, Len(words) - 1) ELSE words

normalizeName(name) ==
    IF name = <<>> THEN <<>>
    ELSE LET lowered == trim(toLowerCase(name))
             spaced  == ReplaceSpacesDotSpaces(
                            ReplaceDotSpaces(CollapseSpaces(lowered)))
             words   == StripSuffix(StripPrefix(SplitWords(spaced, <<>>)))
         IN  JoinWords([i \in 1..Len(words) |-> Capitalize(words[i])])

Min3(a, b, c) == IF a <= b /\ a <= c THEN a ELSE IF b <= c THEN b ELSE c

\* One row dp[i][0..n] of the dynamic-programming table, built left to right
\* from the row above it (prev = dp[i-1]); ch = str1[i-1].
RECURSIVE LevRow(_, _, _, _)
LevRow(prev, ch, str2, cur) ==
    IF Len(cur) = Len(prev) THEN cur
    ELSE LET j == Len(cur)          \* column to fill, 1 <= j <= n
             v == IF ch = str2[j]
                  THEN prev[j]      \* dp[i-1][j-1]
                  ELSE 1 + Min3(prev[j + 1], cur[j], prev[j])
         IN  LevRow(prev, ch, str2, Append(cur, v))

RECURSIVE LevRows(_, _, _, _)
LevRows(str1, str2, i, prev) ==
    IF i > Len(str1) THEN prev
    ELSE LevRows(str1, str2, i + 1, LevRow(prev, str1[i], str2, <<i>>))

levenshteinDistance(str1, str2) ==
    LevRows(str1, str2, 1, [j \in 1..(Len(str2) + 1) |-> j - 1])[Len(str2) + 1]

Max(a, b) == IF a >= b THEN a ELSE b

\* similarity(str1, str2) as the exact fraction num/den of
\* 1 - levenshteinDistance / maxLen
similarity(str1, str2) ==
    LET maxLen == Max(Len(str1), Len(str2))
    IN  IF maxLen = 0 THEN [num |-> 1, den |-> 1]
        ELSE [num |-> maxLen - levenshteinDistance(str1, str2), den |-> maxLen]

\* sim >= threshold, the threshold given in hundredths (0.75 is 75)
AtLeast(sim, threshold) == sim.num * 100 >= threshold * sim.den

DEFAULT_THRESHOLD == 75

\* The match test of the inner loop of groupSimilarNames, on two normalized
\* forms: similarity >= threshold, or one contains the other and the shorter
\* has at least 4 characters.
NamesMatch(a, b, threshold) ==
    \/ AtLeast(similarity(a, b), threshold)
    \/ LET lowerA == toLowerCase(a)
           lowerB == toLowerCase(b)
           shorter == IF Len(lowerA) < Len(lowerB) THEN lowerA ELSE lowerB
       IN  /\ includes(lowerA, lowerB) \/ includes(lowerB, lowerA)
           /\ Len(shorter) >= 4

\* Object.entries(nameCounts) of findCanonicalName: one entry per distinct
\* original in first-occurrence order, counts summed
RECURSIVE SumCounts(_, _)
SumCounts(entries, acc) ==
    IF entries = <<>> THEN acc
    ELSE LET e == Head(entries)
         IN  IF \E i \in 1..Len(acc) : acc[i].original = e.original
             THEN SumCounts(Tail(entries),
                    [i \in 1..Len(acc) |->
                        IF acc[i].original = e.original
                        THEN [acc[i] EXCEPT !.count = @ + e.count]
                        ELSE acc[i]])
             ELSE SumCounts(Tail(entries),
                    Append(acc, [original |-> e.original, count |-> e.count]))

\* CanonicalBefore without the tie-break on the normalized length
CanonicalBeforeCountOnly(a, b) == b.count < a.count

\* the comparator of findCanonicalName: a sorts strictly before b (the
\* comparator's result is negative)
CanonicalBefore(a, b) ==
    IF b.count # a.count THEN b.count < a.count
    ELSE Len(normalizeName(b.original)) < Len(normalizeName(a.original))

\* Array.prototype.sort is stable: x goes before the first element it
\* strictly precedes
RECURSIVE InsertCanonical(_, _)
InsertCanonical(sorted, x) ==
    IF sorted = <<>> THEN <<x>>
    ELSE IF CanonicalBefore(x, Head(sorted)) THEN <<x>> \o sorted
    ELSE <<Head(sorted)>> \o InsertCanonical(Tail(sorted), x)

RECURSIVE SortCanonical(_, _)
SortCanonical(entries, sorted) ==
    IF entries = <<>> THEN sorted
    ELSE SortCanonical(Tail(entries), InsertCanonical(sorted, Head(entries)))

findCanonicalName(nameGroup) ==
    normalizeName(SortCanonical(SumCounts(nameGroup, <<>>), <<>>)[1].original)

\* InsertByCount leaving nameData in input order
InsertUnsorted(sorted, x) == Append(sorted, x)

\* nameData.sort((a, b) => b.count - a.count), stable
RECURSIVE InsertByCount(_, _)
InsertByCount(sorted, x) ==
    IF sorted = <<>> THEN <<x>>
    ELSE IF x.count > Head(sorted).count THEN <<x>> \o sorted
    ELSE <<Head(sorted)>> \o InsertByCount(Tail(sorted), x)

RECURSIVE SortByCount(_, _)
SortByCount(entries, sorted) ==
    IF entries = <<>> THEN sorted
    ELSE SortByCount(Tail(entries), InsertByCount(sorted, Head(entries)))

\* ScanOthers without processed.add(otherEntry.original)
RECURSIVE ScanOthersNoMark(_, _, _, _, _)
ScanOthersNoMark(nameData, seed, threshold, j, st) ==
    IF j > Len(nameData) THEN st
    ELSE LET other == nameData[j]
         IN  IF other.original \in st.processed
             THEN ScanOthersNoMark(nameData, seed, threshold, j + 1, st)
             ELSE IF NamesMatch(seed.normalized, other.normalized, threshold)
             THEN ScanOthersNoMark(nameData, seed, threshold, j + 1,
                    [group |-> Append(st.group, other),
                     processed |-> st.processed])
             ELSE ScanOthersNoMark(nameData, seed, threshold, j + 1, st)

\* the inner loop: scan all of nameData for unprocessed entries matching the
\* seed; st = [group, processed]
RECURSIVE ScanOthers(_, _, _, _, _)
ScanOthers(nameData, seed, threshold, j, st) ==
    IF j > Len(nameData) THEN st
    ELSE LET other == nameData[j]
         IN  IF other.original \in st.processed
             THEN ScanOthers(nameData, seed, threshold, j + 1, st)
             ELSE IF NamesMatch(seed.normalized, other.normalized, threshold)
             THEN ScanOthers(nameData, seed, threshold, j + 1,
                    [group |-> Append(st.group, other),
                     processed |-> st.processed \cup {other.original}])
             ELSE ScanOthers(nameData, seed, threshold, j + 1, st)

RECURSIVE SumOfCounts(_)
SumOfCounts(group) ==
    IF group = <<>> THEN 0 ELSE Head(group).count + SumOfCounts(Tail(group))

\* the outer loop: st = [groups, processed]
RECURSIVE SeedLoop(_, _, _, _)
SeedLoop(nameData, threshold, i, st) ==
    IF i > Len(nameData) THEN st.groups
    ELSE LET nameEntry == nameData[i]
         IN  IF nameEntry.original \in st.processed
             THEN SeedLoop(nameData, threshold, i + 1, st)
             ELSE LET scanned == ScanOthers(nameData, nameEntry, threshold, 1,
                                   [group |-> <<nameEntry>>,
                                    processed |-> st.processed \cup {nameEntry.original}])
                      group == scanned.group
                  IN  SeedLoop(nameData, threshold, i + 1,
                        [groups |-> Append(st.groups,
                            [canonical  |-> findCanonicalName(group),
                             variants   |-> [k \in 1..Len(group) |-> group[k].original],
                             totalCount |-> SumOfCounts(group)]),
                         processed |-> scanned.processed])

\* names: a sequence of [name, count]
groupSimilarNames(names, threshold) ==
    LET nameData == [i \in 1..Len(names) |->
                        [original   |-> names[i].name,
                         normalized |-> normalizeName(names[i].name),
                         count      |-> IF names[i].count = 0 THEN 1
                                        ELSE names[i].count]]
    IN  SeedLoop(SortByCount(nameData, <<>>), threshold, 1,
                 [groups |-> <<>>, processed |-> {}])


\* A sheet row is a function from header to cell. Name and category cells are
\* strings; a question cell is a number.
CellOf(row, key) == IF key \in DOMAIN row THEN row[key] ELSE <<>>

\* the counting loop of createNameMapping: Object.entries(nameCounts), one
\* entry per distinct trimmed non-empty name, in first-occurrence order
RECURSIVE CountNames(_, _, _)
CountNames(data, facultyColumn, acc) ==
    IF data = <<>> THEN acc
    ELSE LET name == trim(CellOf(Head(data), facultyColumn))
         IN  IF name = <<>> THEN CountNames(Tail(data), facultyColumn, acc)
             ELSE IF \E i \in 1..Len(acc) : acc[i].name = name
             THEN CountNames(Tail(data), facultyColumn,
                    [i \in 1..Len(acc) |->
                        IF acc[i].name = name
                        THEN [acc[i] EXCEPT !.count = @ + 1] ELSE acc[i]])
             ELSE CountNames(Tail(data), facultyColumn,
                    Append(acc, [name |-> name, count |-> 1]))

SeqToSet(seq) == { seq[i] : i \in 1..Len(seq) }

\* index of the last group that wrote key k of a mapping object
LastGroupWith(groups, P(_)) ==
    CHOOSE g \in 1..Len(groups) :
        /\ P(groups[g])
        /\ \A h \in (g + 1)..Len(groups) : ~P(groups[h])

\* what createNameMapping returns for the counted names and their groups:
\* groups.forEach writes reverseMapping[canonical] and mapping[variant]
NameMappingOf(nameArray, groups) ==
    LET variantKeys == UNION { SeqToSet(groups[g].variants) : g \in 1..Len(groups) }
        canonicalKeys == { groups[g].canonical : g \in 1..Len(groups) }
    IN  [ mapping |->
              [v \in variantKeys |->
                  groups[LastGroupWith(groups,
                            LAMBDA grp : v \in SeqToSet(grp.variants))].canonical],
          reverseMapping |->
              [c \in canonicalKeys |->
                  groups[LastGroupWith(groups,
                            LAMBDA grp : grp.canonical = c)].variants],
          groups |-> groups,
          totalOriginal |-> Len(nameArray),
          totalNormalized |-> Len(groups) ]

\* createNameMapping from the counted names on
GroupCountedNames(nameArray) ==
    NameMappingOf(nameArray, groupSimilarNames(nameArray, DEFAULT_THRESHOLD))

createNameMapping(data, facultyColumn) ==
    GroupCountedNames(CountNames(data, facultyColumn, <<>>))

ORIGINAL_NAME_KEY == "_originalFacultyName"

\* mapping[name], undefined (modelled as the falsy '') when the key is absent
Lookup(mapping, name) == IF name \in DOMAIN mapping THEN mapping[name] ELSE <<>>

applyNameMapping(data, facultyColumn, mapping) ==
    [i \in 1..Len(data) |->
        LET row == data[i]
            originalName == trim(CellOf(row, facultyColumn))
        IN  IF originalName # <<>> /\ Lookup(mapping, originalName) # <<>>
            THEN [h \in DOMAIN row \cup {ORIGINAL_NAME_KEY} |->
                    IF h = facultyColumn THEN mapping[originalName]
                    ELSE IF h = ORIGINAL_NAME_KEY THEN originalName
                    ELSE row[h]]
            ELSE row]

----------------------------------------------------------------------------
(* services/analytics.js                                                   *)

\* a JavaScript value that may be null / undefined: <<>> or <<value>>
Null == <<>>
Some(x) == <<x>>

\* the headers of the modelled sheet
FacultyHeader  == "Name of Faculty"
DeptHeader     == "Department"
QuestionHeader == "Content is delivered clearly"
Headers == <<FacultyHeader, DeptHeader, QuestionHeader>>

\* h.toLowerCase().includes('faculty') || h.toLowerCase().includes('teacher')
IsFacultyLike(h) == h = FacultyHeader

\* headers.find(...): the first matching header, Null when there is none
FindFacultyColumn(headers) ==
    IF \E i \in 1..Len(headers) : IsFacultyLike(headers[i])
    THEN headers[CHOOSE i \in 1..Len(headers) :
                    /\ IsFacultyLike(headers[i])
                    /\ \A j \in 1..(i - 1) : ~IsFacultyLike(headers[j])]
    ELSE "-"

\* the FILTER_KEYWORDS test of buildMetadata on the modelled headers
IsFilterable(h) == h \in {FacultyHeader, DeptHeader}

\* the expanded value set applyFilters builds for one selected category
ExpandedValues(key, values, nameMapping, facultyColumn) ==
    IF key = facultyColumn /\ nameMapping # Null
    THEN LET nm == nameMapping[1]
             variantsOf(selectedName) ==
                 LET mapped == Lookup(nm.mapping, selectedName)
                     canonicalName == IF mapped # <<>> THEN mapped ELSE selectedName
                 IN  IF canonicalName \in DOMAIN nm.reverseMapping
                     THEN nm.reverseMapping[canonicalName]
                     ELSE <<selectedName>>
         IN  UNION { SeqToSet(variantsOf(values[i])) : i \in 1..Len(values) }
    ELSE SeqToSet(values)

\* a filter callback that passes a row matching any one active category
RowMatchesAny(row, filters, activeKeys, nameMapping, facultyColumn) ==
    \E k \in activeKeys :
        trim(CellOf(row, k)) \in ExpandedValues(k, filters[k], nameMapping, facultyColumn)

\* the filter callback of applyFilters: the row's trimmed cell is in the value
\* set of every active category
RowMatches(row, filters, activeKeys, nameMapping, facultyColumn) ==
    \A k \in activeKeys :
        trim(CellOf(row, k)) \in ExpandedValues(k, filters[k], nameMapping, facultyColumn)

\* data.filter(row => ...), order kept
RECURSIVE FilterRows(_, _, _, _, _)
FilterRows(data, filters, activeKeys, nameMapping, facultyColumn) ==
    IF data = <<>> THEN <<>>
    ELSE (IF RowMatches(Head(data), filters, activeKeys, nameMapping, facultyColumn)
          THEN <<Head(data)>> ELSE <<>>)
         \o FilterRows(Tail(data), filters, activeKeys, nameMapping, facultyColumn)

applyFilters(data, filters, nameMapping, facultyColumn) ==
    IF DOMAIN filters = {} THEN data
    ELSE LET activeKeys == { k \in DOMAIN filters : filters[k] # <<>> }
         IN  IF activeKeys = {} THEN data
             ELSE FilterRows(data, filters, activeKeys, nameMapping, facultyColumn)

\* the score of one question cell: a number in [1, 5] is rounded, anything
\* else has no score (0 stands for undefined)
CellScore(rawValue) == IF rawValue >= 1 /\ rawValue <= 5 THEN rawValue ELSE 0

\* identifyQuestionColumns on the modelled headers: only QuestionHeader is
\* long enough and not a metadata column; it is a question column when one
\* of the first min(100, n) rows holds a rating
SAMPLE_SIZE == 100

identifyQuestionColumns(headers, data) ==
    LET sampleSize == IF Len(data) < SAMPLE_SIZE THEN Len(data) ELSE SAMPLE_SIZE
    IN  SelectSeq(headers, LAMBDA h :
            /\ h = QuestionHeader
            /\ \E j \in 1..sampleSize : CellScore(data[j][h]) # 0)

\* Math.round(x * 100) / 100 of the fraction num/den, in hundredths
Round2(num, den) == (200 * num + den) \div (2 * den)

\* rowScore / validQuestions of one row as a fraction; den = 0 when the row
\* has no valid question value
RECURSIVE RowScore(_, _, _)
RowScore(row, questionColumns, acc) ==
    IF questionColumns = <<>> THEN acc
    ELSE LET score == CellScore(row[Head(questionColumns)])
         IN  RowScore(row, Tail(questionColumns),
                IF score # 0
                THEN [num |-> acc.num + score, den |-> acc.den + 1]
                ELSE acc)

\* facultyData of calculateFacultyScores: one entry per faculty name in
\* first-occurrence order; the sum of the row means is kept as a fraction
RECURSIVE FacultyData(_, _, _, _)
FacultyData(data, facultyColumn, questionColumns, acc) ==
    IF data = <<>> THEN acc
    ELSE LET row == Head(data)
             facultyName == trim(CellOf(row, facultyColumn))
             rs == RowScore(row, questionColumns, [num |-> 0, den |-> 0])
             known == \E i \in 1..Len(acc) : acc[i].name = facultyName
             acc1 == IF known THEN acc
                     ELSE Append(acc, [name |-> facultyName, sumNum |-> 0,
                                       sumDen |-> 1, count |-> 0])
             acc2 == [i \in 1..Len(acc1) |->
                        IF acc1[i].name = facultyName /\ rs.den > 0
                        THEN [acc1[i] EXCEPT
                                !.sumNum = @ * rs.den + rs.num * acc1[i].sumDen,
                                !.sumDen = @ * rs.den,
                                !.count = @ + 1]
                        ELSE acc1[i]]
         IN  IF facultyName = <<>>
             THEN FacultyData(Tail(data), facultyColumn, questionColumns, acc)
             ELSE FacultyData(Tail(data), facultyColumn, questionColumns, acc2)

\* .sort((a, b) => b.score - a.score), stable
RECURSIVE InsertByScore(_, _)
InsertByScore(sorted, x) ==
    IF sorted = <<>> THEN <<x>>
    ELSE IF x.score > Head(sorted).score THEN <<x>> \o sorted
    ELSE <<Head(sorted)>> \o InsertByScore(Tail(sorted), x)

RECURSIVE SortByScore(_, _)
SortByScore(entries, sorted) ==
    IF entries = <<>> THEN sorted
    ELSE SortByScore(Tail(entries), InsertByScore(sorted, Head(entries)))

\* score is in hundredths; -1 stands for NaN (0 / 0, a faculty none of whose
\* rows has a valid question value)
calculateFacultyScores(data, headers, questionColumns) ==
    LET facultyColumn == FindFacultyColumn(headers)
    IN  IF facultyColumn = "-" \/ questionColumns = <<>> THEN <<>>
        ELSE LET fd == FacultyData(data, facultyColumn, questionColumns, <<>>)
                 scored == [i \in 1..Len(fd) |->
                     [name |-> fd[i].name,
                      score |-> IF fd[i].count = 0 THEN -1
                                ELSE Round2(fd[i].sumNum, fd[i].sumDen * fd[i].count),
                      feedbackCount |-> fd[i].count]]
                 sorted == SortByScore(scored, <<>>)
             IN  [i \in 1..Len(sorted) |->
                    [name |-> sorted[i].name, score |-> sorted[i].score,
                     feedbackCount |-> sorted[i].feedbackCount, rank |-> i]]

\* date.toLocaleString('default', { month: 'short' })
MonthShort == << <<"J","a","n">>, <<"F","e","b">>, <<"M","a","r">>,
                 <<"A","p","r">>, <<"M","a","y">>, <<"J","u","n">>,
                 <<"J","u","l">>, <<"A","u","g">>, <<"S","e","p">>,
                 <<"O","c","t">>, <<"N","o","v">>, <<"D","e","c">> >>

DigitChars == <<"0","1","2","3","4","5","6","7","8","9">>
DigitOf(n) == DigitChars[n + 1]

\* Math.ceil(date.getDate() / 7)
WeekOfMonth(date) == (date.day + 6) \div 7

\* getWeekKey(date): `${month} W${weekOfMonth}`; the year it reads is not
\* part of the key
getWeekKey(date) ==
    MonthShort[date.month] \o <<" ", "W">> \o <<DigitOf(WeekOfMonth(date))>>

\* a.localeCompare(b) < 0 on the characters of week keys: a space sorts
\* before the digits, the digits before the letters, and a letter before the
\* next letter of the alphabet whatever its case
CollationOrder ==
    <<" ">> \o DigitChars \o
    [i \in 1..(2 * Len(LowerChars)) |->
        IF i % 2 = 1 THEN LowerChars[(i + 1) \div 2] ELSE UpperChars[i \div 2]]
CollationRank(c) == CHOOSE i \in 1..Len(CollationOrder) : CollationOrder[i] = c

RECURSIVE LocaleLess(_, _)
LocaleLess(a, b) ==
    IF b = <<>> THEN FALSE
    ELSE IF a = <<>> THEN TRUE
    ELSE IF Head(a) = Head(b) THEN LocaleLess(Tail(a), Tail(b))
    ELSE CollationRank(Head(a)) < CollationRank(Head(b))

\* h.toLowerCase() includes 'timestamp', 'date' or 'time'
TimestampHeader == "Timestamp"
IsTimestampLike(h) == h = TimestampHeader

\* weeklyData of calculateTimeTrends: one entry per week key in the order
\* of first occurrence, made when the first row with that key and a valid
\* date is met; the sum of the row means pushed to scores is a fraction
RECURSIVE WeeklyData(_, _, _, _)
WeeklyData(data, timestampColumn, questionColumns, acc) ==
    IF data = <<>> THEN acc
    ELSE LET row == Head(data)
             timestamp == CellOf(row, timestampColumn)
             weekKey == getWeekKey(timestamp)
             rs == RowScore(row, questionColumns, [num |-> 0, den |-> 0])
             known == \E i \in 1..Len(acc) : acc[i].key = weekKey
             acc1 == IF known THEN acc
                     ELSE Append(acc, [key |-> weekKey, sumNum |-> 0,
                                       sumDen |-> 1, count |-> 0])
             acc2 == [i \in 1..Len(acc1) |->
                        IF acc1[i].key = weekKey /\ rs.den > 0
                        THEN [acc1[i] EXCEPT
                                !.sumNum = @ * rs.den + rs.num * acc1[i].sumDen,
                                !.sumDen = @ * rs.den,
                                !.count = @ + 1]
                        ELSE acc1[i]]
         IN  IF timestamp = <<>>
             THEN WeeklyData(Tail(data), timestampColumn, questionColumns, acc)
             ELSE WeeklyData(Tail(data), timestampColumn, questionColumns, acc2)

\* .sort(([a], [b]) => a.localeCompare(b)), stable
RECURSIVE InsertByKey(_, _)
InsertByKey(sorted, x) ==
    IF sorted = <<>> THEN <<x>>
    ELSE IF LocaleLess(x.key, Head(sorted).key) THEN <<x>> \o sorted
    ELSE <<Head(sorted)>> \o InsertByKey(Tail(sorted), x)

RECURSIVE SortByKey(_, _)
SortByKey(entries, sorted) ==
    IF entries = <<>> THEN sorted
    ELSE SortByKey(Tail(entries), InsertByKey(sorted, Head(entries)))

TREND_PERIODS == 10

\* .slice(-n)
LastN(seq, n) == IF Len(seq) <= n THEN seq ELSE SubSeq(seq, Len(seq) - n + 1, Len(seq))

\* value is in hundredths; -1 stands for NaN (0 / 0, a bucket whose scores
\* array is empty)
calculateTimeTrends(data, headers, questionColumns) ==
    IF (\A i \in 1..Len(headers) : ~IsTimestampLike(headers[i]))
       \/ questionColumns = <<>>
    THEN <<>>
    ELSE LET weeklyData == WeeklyData(data, TimestampHeader, questionColumns, <<>>)
             kept == LastN(SortByKey(weeklyData, <<>>), TREND_PERIODS)
         IN  [i \in 1..Len(kept) |->
                [label |-> kept[i].key,
                 value |-> IF kept[i].count = 0 THEN -1
                           ELSE Round2(kept[i].sumNum,
                                       kept[i].sumDen * kept[i].count)]]

\* the record calculateAnalytics returns for no rows
EmptyAnalytics ==
    [totalResponses |-> 0, averageRating |-> 0, questionScores |-> <<>>,
     departmentWise |-> <<>>, timeTrends |-> <<>>, facultyScores |-> <<>>,
     sectionWise |-> <<>>, courseWise |-> <<>>, semesterWise |-> <<>>]

\* calculateAnalytics with the header row counted as a response
calculateAnalyticsCountsHeader(data, headers, questionColumns) ==
    [totalResponses |-> Len(data) + 1,
     facultyScores |-> calculateFacultyScores(data, headers, questionColumns)]

\* the analytics record; of the record for one or more rows the model keeps
\* totalResponses and the faculty rollup
calculateAnalytics(data, headers, questionColumns) ==
    IF Len(data) = 0
    THEN EmptyAnalytics
    ELSE [totalResponses |-> Len(data),
          facultyScores |-> calculateFacultyScores(data, headers, questionColumns)]

\* JavaScript's default string order (UTF-16 code units) on the characters
\* the model uses
CharOrder == <<" ", "'", ".">> \o UpperChars \o LowerChars
CharCode(c) == CHOOSE i \in 1..Len(CharOrder) : CharOrder[i] = c

RECURSIVE StringLess(_, _)
StringLess(a, b) ==
    IF b = <<>> THEN FALSE
    ELSE IF a = <<>> THEN TRUE
    ELSE IF Head(a) = Head(b) THEN StringLess(Tail(a), Tail(b))
    ELSE CharCode(Head(a)) < CharCode(Head(b))

\* Array.from(uniqueSet).sort()
RECURSIVE SortedValues(_)
SortedValues(set) ==
    IF set = {} THEN <<>>
    ELSE LET least == CHOOSE x \in set : \A y \in set \ {x} : StringLess(x, y)
         IN  <<least>> \o SortedValues(set \ {least})

MAX_FILTER_VALUES == 500

\* the filters object of buildMetadata: category -> sorted distinct non-empty
\* trimmed values, for the filterable columns with 1..500 distinct values
MetadataFilters(headers, data) ==
    LET uniqueSet(h) == { trim(data[j][h]) : j \in { k \in 1..Len(data) : data[k][h] # <<>> } }
        kept == { h \in SeqToSet(headers) :
                    /\ IsFilterable(h)
                    /\ Cardinality(uniqueSet(h)) > 0
                    /\ Cardinality(uniqueSet(h)) <= MAX_FILTER_VALUES }
    IN  [h \in kept |-> SortedValues(uniqueSet(h))]

----------------------------------------------------------------------------
(* The dashboard: merge overlay and filter selection                       *)

\* the prefixes and suffixes of findSimilarNames
prefixes == {
    <<"m","r">>, <<"m","r",".">>, <<"m","r","s">>, <<"m","r","s",".">>,
    <<"m","s">>, <<"m","s",".">>, <<"d","r">>, <<"d","r",".">>,
    <<"p","r","o","f">>, <<"p","r","o","f",".">>,
    <<"s","h","r","i">>, <<"s","m","t">> }

suffixes == {
    <<"s","i","r">>, <<"m","a","m">>, <<"m","a","'","a","m">>,
    <<"m","a","d","a","m">>, <<"m","a","d","e","m">>, <<"m","e","m">>,
    <<"m","a","a","m">>, <<"j","i">>, <<"g">> }

\* cleaned.split(' '): the empty string gives one empty word
RECURSIVE SplitOnSpace(_, _)
SplitOnSpace(s, word) ==
    IF s = <<>> THEN <<word>>
    ELSE IF Head(s) = " " THEN <<word>> \o SplitOnSpace(Tail(s), <<>>)
    ELSE SplitOnSpace(Tail(s), Append(word, Head(s)))

\* cleanName of findSimilarNames: lower case, one prefix word and one suffix
\* word taken off; dots stay where they are
cleanName(name) ==
    LET cleaned == CollapseSpaces(trim(toLowerCase(name)))
        words == SplitOnSpace(cleaned, <<>>)
        words1 == IF Len(words) > 1 /\ RemoveDots(words[1]) \in prefixes
                  THEN Tail(words) ELSE words
        words2 == IF Len(words1) > 1 /\ RemoveDots(words1[Len(words1)]) \in suffixes
                  THEN SubSeq(words1, 1, Len(words1) - 1) ELSE words1
    IN  JoinWords(words2)

\* calculateSimilarity of the dashboard, as a fraction
calculateSimilarity(str1, str2) ==
    similarity(trim(toLowerCase(str1)), trim(toLowerCase(str2)))

\* the filter callback of findSimilarNames
IsSimilarName(targetName, name, threshold) ==
    LET targetClean == cleanName(targetName)
        nameClean == cleanName(name)
        containsMatch == includes(nameClean, targetClean)
                            \/ includes(targetClean, nameClean)
        minLength == IF Len(nameClean) < Len(targetClean)
                     THEN Len(nameClean) ELSE Len(targetClean)
    IN  /\ name # targetName
        /\ \/ AtLeast(calculateSimilarity(targetClean, nameClean), threshold)
           \/ containsMatch /\ minLength >= 4

findSimilarNames(targetName, allNames, threshold) ==
    SelectSeq(allNames, LAMBDA name : IsSimilarName(targetName, name, threshold))

\* mergedNames[category] || {}; an overlay object is the sequence of its
\* (canonical, variants) entries in insertion order
CategoryMerges(mergedNames, category) ==
    IF category \in DOMAIN mergedNames THEN mergedNames[category] ELSE <<>>

\* the label getDisplayOptions resolves one raw option to
FoundCanonical(categoryMerges, opt) ==
    LET hit(e) == opt \in SeqToSet(e.variants) \/ e.canonical = opt
    IN  IF \E i \in 1..Len(categoryMerges) : hit(categoryMerges[i])
        THEN categoryMerges[CHOOSE i \in 1..Len(categoryMerges) :
                /\ hit(categoryMerges[i])
                /\ \A j \in 1..(i - 1) : ~hit(categoryMerges[j])].canonical
        ELSE opt

\* [...new Set(seq)]: first occurrences, in order
RECURSIVE Dedup(_)
Dedup(seq) ==
    IF seq = <<>> THEN <<>>
    ELSE LET front == SubSeq(seq, 1, Len(seq) - 1)
             last == seq[Len(seq)]
         IN  IF last \in SeqToSet(front) THEN Dedup(front)
             ELSE Append(Dedup(front), last)

\* display options that list every raw option under itself
getDisplayOptionsUnmerged(mergedNames, category, options) ==
    [d \in 1..Len(options) |->
        [displayName |-> options[d], originalNames |-> <<options[d]>>]]

getDisplayOptions(mergedNames, category, options) ==
    LET categoryMerges == CategoryMerges(mergedNames, category)
        label(i) == FoundCanonical(categoryMerges, options[i])
        labels == Dedup([i \in 1..Len(options) |-> label(i)])
    IN  [d \in 1..Len(labels) |->
            [displayName |-> labels[d],
             originalNames |->
                SelectSeq(options, LAMBDA opt :
                    FoundCanonical(categoryMerges, opt) = labels[d])]]

\* filterState[category] || []
SelectedIn(filterState, category) ==
    IF category \in DOMAIN filterState THEN filterState[category] ELSE <<>>

\* {...prev, [category]: values}
WithCategory(filterState, category, values) ==
    [k \in DOMAIN filterState \cup {category} |->
        IF k = category THEN values ELSE filterState[k]]

handleMergedOptionChange(filterState, category, originalNames) ==
    LET currentSelected == SelectedIn(filterState, category)
        isSelected == \E n \in SeqToSet(originalNames) : n \in SeqToSet(currentSelected)
    IN  IF isSelected
        THEN WithCategory(filterState, category,
                SelectSeq(currentSelected, LAMBDA n : n \notin SeqToSet(originalNames)))
        ELSE WithCategory(filterState, category,
                Dedup(currentSelected \o originalNames))

\* StripSelected leaving the existing entries as they are
StripNothing(categoryMerges, mergeSelectedNames) == categoryMerges

\* the loop of handleConfirmMerge over the existing entries: the selected
\* names are removed from every entry, entries left empty are deleted
StripSelected(categoryMerges, mergeSelectedNames) ==
    SelectSeq([i \in 1..Len(categoryMerges) |->
                  [canonical |-> categoryMerges[i].canonical,
                   variants |-> SelectSeq(categoryMerges[i].variants,
                                    LAMBDA v : v \notin SeqToSet(mergeSelectedNames))]],
              LAMBDA e : e.variants # <<>>)

\* categoryMerges[canonical] = variants: an existing key keeps its place, a
\* new key goes last
SetEntry(categoryMerges, canonical, variants) ==
    IF \E i \in 1..Len(categoryMerges) : categoryMerges[i].canonical = canonical
    THEN [i \in 1..Len(categoryMerges) |->
            IF categoryMerges[i].canonical = canonical
            THEN [canonical |-> canonical, variants |-> variants]
            ELSE categoryMerges[i]]
    ELSE Append(categoryMerges, [canonical |-> canonical, variants |-> variants])

\* the guard of handleConfirmMerge (an active sheet is taken as given)
MergeRejected(mergeCanonicalName, mergeSelectedNames) ==
    mergeCanonicalName = <<>> \/ Len(mergeSelectedNames) < 2

\* newMergedNames of handleConfirmMerge
handleConfirmMerge(mergedNames, mergeCategory, mergeCanonicalName, mergeSelectedNames) ==
    WithCategory(mergedNames, mergeCategory,
        SetEntry(StripSelected(CategoryMerges(mergedNames, mergeCategory),
                               mergeSelectedNames),
                 mergeCanonicalName, mergeSelectedNames))

\* the setFilterState update of handleConfirmMerge
MergeFilterState(filterState, mergeCategory, mergeSelectedNames) ==
    WithCategory(filterState, mergeCategory,
        Dedup(SelectSeq(SelectedIn(filterState, mergeCategory),
                        LAMBDA v : v \notin SeqToSet(mergeSelectedNames))
              \o mergeSelectedNames))

\* newMergedNames of handleUnmerge
handleUnmerge(mergedNames, category, canonicalName) ==
    WithCategory(mergedNames, category,
        SelectSeq(CategoryMerges(mergedNames, category),
                  LAMBDA e : e.canonical # canonicalName))

----------------------------------------------------------------------------
(* Names used as inputs                                                    *)

DrRao       == <<"D","r","."," ","R","a","o">>
RaoSir      == <<"R","a","o"," ","S","i","r">>
RAO         == <<"R","A","O">>
Rao         == <<"R","a","o">>
Dot         == <<".">>
DotDot      == <<".",".">>
Tanvi       == <<"T","a","n","v","i">>
Tanvy       == <<"T","a","n","v","y">>
TanviMadaan == <<"T","a","n","v","i"," ","M","a","d","a","a","n">>

\* bounds of the input spaces
MaxTokens == 3
MaxVariants == 3
MaxCount == 2

----------------------------------------------------------------------------
(* SpecNorm: normalizeName applied once and twice to a raw name            *)

TokenPool == { <<"D","r">>, <<"d","r",".">>, <<"M","r">>,
               <<"S","m","i","t","h">>, <<"S","i","r">>, <<"J","i">> }

ExtraInputs == { <<"D","R","."," "," ","S","m","i","t","h"," ">>,
                 <<"d","r"," ","s","m","i","t","h">>,
                 <<>>, Dot, DotDot, DrRao, RaoSir, RAO }

NormInputs ==
    { JoinWords(ws) : ws \in UNION { [1..n -> TokenPool] : n \in 1..MaxTokens } }
        \cup ExtraInputs

NormIdle == /\ nmIn = <<>> /\ nmOnce = <<>> /\ nmTwice = <<>> /\ nmPc = "off"
GroupIdle == /\ grIn = <<>> /\ grThreshold = 0 /\ grOut = <<>> /\ grPc = "off"
DataIdle ==
    /\ dsData = [headers |-> <<>>, data |-> <<>>, totalRows |-> 0]
    /\ dsNameMapping = <<>>
    /\ dsMerged = <<>>
    /\ dsDynamicFilters = <<>>
    /\ dsFilterState = <<>>
    /\ dsClicks = 0
    /\ dsResp = [op |-> "off"]
FilterIdle == /\ afData = <<>> /\ afFilters = <<>> /\ afOut = <<>> /\ afPc = "off"
ClearIdle == /\ ccCache = {} /\ ccCleared = {} /\ ccLast = [op |-> "off"]
MergeIdle ==
    /\ mgMerged = <<>>
    /\ mgPersisted = <<>>
    /\ mgFilterState = <<>>
    /\ mgOps = 0
    /\ mgLast = [op |-> "off"]
OthersIdle == FilterIdle /\ ClearIdle /\ MergeIdle

CacheIdle ==
    /\ cache = <<>>
    /\ pendingFetches = <<>>
    /\ fetches = <<>>
    /\ tasks = <<>>
    /\ upstream = 0
    /\ issued = 0
    /\ lastGood = <<>>
    /\ lastEvent = [type |-> "off"]

TrendIdle ==
    /\ ttData = <<>>
    /\ ttOut = <<>>
    /\ ttPc = "off"
DisplayIdle ==
    /\ doOptions = <<>>
    /\ doMerged = <<>>
    /\ doOut = <<>>
    /\ doPc = "off"
SimilarIdle ==
    /\ smTarget = <<>>
    /\ smOther = <<>>
    /\ smThreshold = 0
    /\ smSuggested = <<>>
    /\ smGroups = <<>>
    /\ smPc = "off"
QuestionIdle ==
    /\ qcHeader = <<>>
    /\ qcCells = <<>>
    /\ qcColumns = <<>>
    /\ qcScores = <<>>
    /\ qcPc = "off"
RowsIdle ==
    /\ rwRows = <<>>
    /\ rwArray = <<>>
    /\ rwFetched = <<>>
    /\ rwLast = [op |-> "off"]
InvalidateIdle ==
    /\ ivReads = <<>>
    /\ ivOld = [tasks |-> {}, fetches |-> {}]
    /\ ivClears = 0
    /\ ivLast = [type |-> "none"]
OverlayIdle ==
    /\ ovDoc = <<>>
    /\ ovReqs = <<>>
    /\ ovIssued = 0
    /\ ovLast = [op |-> "off"]
LaterIdle == TrendIdle /\ DisplayIdle /\ SimilarIdle /\ QuestionIdle /\ RowsIdle /\ InvalidateIdle /\ OverlayIdle
BaseIdle == NormIdle /\ GroupIdle /\ DataIdle /\ CacheIdle /\ OthersIdle
TrendRestIdle == BaseIdle /\ DisplayIdle /\ SimilarIdle /\ QuestionIdle /\ RowsIdle /\ InvalidateIdle /\ OverlayIdle
DisplayRestIdle == BaseIdle /\ TrendIdle /\ SimilarIdle /\ QuestionIdle /\ RowsIdle /\ InvalidateIdle /\ OverlayIdle
SimilarRestIdle == BaseIdle /\ TrendIdle /\ DisplayIdle /\ QuestionIdle /\ RowsIdle /\ InvalidateIdle /\ OverlayIdle
QuestionRestIdle == BaseIdle /\ TrendIdle /\ DisplayIdle /\ SimilarIdle /\ RowsIdle /\ InvalidateIdle /\ OverlayIdle
RowsRestIdle == BaseIdle /\ TrendIdle /\ DisplayIdle /\ SimilarIdle /\ QuestionIdle /\ InvalidateIdle /\ OverlayIdle
InvalidateRestIdle == BaseIdle /\ TrendIdle /\ DisplayIdle /\ SimilarIdle /\ QuestionIdle /\ RowsIdle /\ OverlayIdle
OverlayRestIdle == BaseIdle /\ TrendIdle /\ DisplayIdle /\ SimilarIdle /\ QuestionIdle /\ RowsIdle /\ InvalidateIdle

InitNorm ==
    /\ nmIn \in NormInputs
    /\ nmOnce = <<>>
    /\ nmTwice = <<>>
    /\ nmPc = "in"
    /\ GroupIdle
    /\ DataIdle
    /\ CacheIdle
    /\ OthersIdle
    /\ LaterIdle

NormalizeOnce ==
    /\ nmPc = "in"
    /\ nmOnce' = normalizeName(nmIn)
    /\ nmPc' = "once"
    /\ UNCHANGED <<nmIn, nmTwice, groupVars, dataVars, cacheVars,
                   filterVars, clearVars, mergeVars,
                   laterVars>>

NormalizeTwice ==
    /\ nmPc = "once"
    /\ nmTwice' = normalizeName(nmOnce)
    /\ nmPc' = "twice"
    /\ UNCHANGED <<nmIn, nmOnce, groupVars, dataVars, cacheVars,
                   filterVars, clearVars, mergeVars,
                   laterVars>>

NextNorm == NormalizeOnce \/ NormalizeTwice

SpecNorm == InitNorm /\ [][NextNorm]_vars

----------------------------------------------------------------------------
(* SpecGroup: groupSimilarNames applied to a list of (name, count)         *)

GroupPool == { DrRao, RAO, Tanvi, Tanvy, TanviMadaan }

VariantLists ==
    UNION { [1..n -> [name : GroupPool, count : 1..MaxCount]] : n \in 0..MaxVariants }

Thresholds == { 65, DEFAULT_THRESHOLD }

InitGroup ==
    /\ grIn \in VariantLists
    /\ grThreshold = 0
    /\ grOut = <<>>
    /\ grPc = "in"
    /\ NormIdle
    /\ DataIdle
    /\ CacheIdle
    /\ OthersIdle
    /\ LaterIdle

GroupSimilarNames ==
    /\ grPc = "in"
    /\ \E t \in Thresholds :
          /\ grThreshold' = t
          /\ grOut' = groupSimilarNames(grIn, t)
    /\ grPc' = "done"
    /\ UNCHANGED <<grIn, normVars, dataVars, cacheVars,
                   filterVars, clearVars, mergeVars,
                   laterVars>>

NextGroup == GroupSimilarNames

SpecGroup == InitGroup /\ [][NextGroup]_vars
----------------------------------------------------------------------------
(* SpecData: the dashboard and the analytics requests on one sheet snapshot *)

CS  == <<"C","S">>
EE  == <<"E","E">>
SpaceDot == <<" ",".">>      \* a cell with a leading space

SheetRow(fac, dept, q) ==
    [h \in {FacultyHeader, DeptHeader, QuestionHeader} |->
        IF h = FacultyHeader THEN fac ELSE IF h = DeptHeader THEN dept ELSE q]

RowPool == { SheetRow(DrRao, CS, 5), SheetRow(RaoSir, CS, 4), SheetRow(RAO, EE, 3),
             SheetRow(SpaceDot, EE, 4), SheetRow(DotDot, CS, 2) }

MaxRows == 3
MaxClicks == 1
MaxPage == 1

\* what fetchSheetDataRaw returns for a sheet with these data rows
SheetData(rows) == [headers |-> Headers, data |-> rows, totalRows |-> Len(rows)]

Datasets == { SheetData(rows) : rows \in UNION { [1..n -> RowPool] : n \in 0..MaxRows } }

\* the overlays a user may have persisted for the sheet
RaoOverlay == [c \in {FacultyHeader} |->
                 << [canonical |-> Rao, variants |-> <<DrRao, RAO>>] >>]
Overlays == { <<>>, RaoOverlay }

InitData ==
    /\ dsData \in Datasets
    /\ dsNameMapping = Null
    /\ dsMerged \in Overlays
    /\ dsDynamicFilters = <<>>
    /\ dsFilterState = <<>>
    /\ dsClicks = 0
    /\ dsResp = [op |-> "none"]
    /\ NormIdle
    /\ GroupIdle
    /\ CacheIdle
    /\ OthersIdle
    /\ LaterIdle

\* nameMapping = cacheService.get(key); if (!nameMapping) { create; set }
NameMappingFor(cached, data, facultyColumn) ==
    IF cached # Null THEN cached[1] ELSE createNameMapping(data, facultyColumn)

\* refreshData step 1: getSheetMetadata / buildMetadata, then setDynamicFilters
GetSheetMetadata ==
    LET facultyColumn == FindFacultyColumn(dsData.headers)
        nameMapping == NameMappingFor(dsNameMapping, dsData.data, facultyColumn)
        filters == MetadataFilters(dsData.headers, dsData.data)
    IN  /\ dsNameMapping' = Some(nameMapping)
        /\ dsDynamicFilters' = filters
        /\ dsResp' = [op |-> "metadata", filters |-> filters,
                      totalRows |-> Len(dsData.data)]
        /\ UNCHANGED <<dsData, dsMerged, dsFilterState, dsClicks, normVars, groupVars, cacheVars,
                   filterVars, clearVars, mergeVars,
                   laterVars>>

\* a click on one display option of one filter category
HandleMergedOptionChange ==
    /\ dsClicks < MaxClicks
    /\ \E category \in DOMAIN dsDynamicFilters :
         LET displayOptions == getDisplayOptions(dsMerged, category,
                                                 dsDynamicFilters[category])
         IN  \E d \in 1..Len(displayOptions) :
                dsFilterState' = handleMergedOptionChange(dsFilterState, category,
                                    displayOptions[d].originalNames)
    /\ dsClicks' = dsClicks + 1
    /\ UNCHANGED <<dsData, dsNameMapping, dsMerged, dsDynamicFilters, dsResp,
                   normVars, groupVars, cacheVars,
                   filterVars, clearVars, mergeVars,
                   laterVars>>

\* computeAnalytics from the filtered rows on
AnalyticsOfRows(filteredData, headers) ==
    calculateAnalytics(filteredData, headers,
                       identifyQuestionColumns(headers, filteredData))

\* computeAnalytics' filteredData: the rows are canonicalised
\* (applyNameMapping), then filtered (applyFilters)
FilterCanonicalised(sheet, nameMapping, facultyColumn, filters) ==
    applyFilters(applyNameMapping(sheet.data, facultyColumn, nameMapping.mapping),
                 filters, Some(nameMapping), facultyColumn)

\* computeAnalytics from the name mapping on
AnalyticsWithMapping(sheet, nameMapping, facultyColumn, filters) ==
    AnalyticsOfRows(FilterCanonicalised(sheet, nameMapping, facultyColumn, filters),
                    sheet.headers)

computeAnalytics(sheet, cachedMapping, filters) ==
    AnalyticsWithMapping(sheet,
        NameMappingFor(cachedMapping, sheet.data, FindFacultyColumn(sheet.headers)),
        FindFacultyColumn(sheet.headers), filters)

\* the analytics response as the dashboard receives it
AnalyticsResponse(filters, analytics) ==
    [op |-> "analytics", filters |-> filters,
     totalResponses |-> analytics.totalResponses,
     facultyScores |-> analytics.facultyScores,
     analytics |-> analytics]

\* getAnalytics -> computeAnalytics with the dashboard's filterState
GetAnalytics ==
    /\ dsNameMapping' = Some(NameMappingFor(dsNameMapping, dsData.data,
                                            FindFacultyColumn(dsData.headers)))
    /\ dsResp' = AnalyticsResponse(dsFilterState,
                    computeAnalytics(dsData, dsNameMapping, dsFilterState))
    /\ UNCHANGED <<dsData, dsMerged, dsDynamicFilters, dsFilterState, dsClicks,
                   normVars, groupVars, cacheVars,
                   filterVars, clearVars, mergeVars,
                   laterVars>>

PAGE_SIZE == 50

\* filteredData.slice(startIndex, endIndex)
Slice(seq, startIndex, endIndex) ==
    SubSeq(seq, startIndex + 1, IF endIndex < Len(seq) THEN endIndex ELSE Len(seq))

\* FilteredRows filtering the canonicalised rows, as computeAnalytics does
FilteredRowsCanonicalised(sheet, cachedMapping, filters) ==
    FilterCanonicalised(sheet,
        NameMappingFor(cachedMapping, sheet.data, FindFacultyColumn(sheet.headers)),
        FindFacultyColumn(sheet.headers), filters)

\* the rows getFilteredData and getFilteredDataForExport select: the raw
\* rows, the name mapping used for filter expansion only
FilteredRows(sheet, cachedMapping, filters) ==
    LET facultyColumn == FindFacultyColumn(sheet.headers)
        nameMapping == NameMappingFor(cachedMapping, sheet.data, facultyColumn)
    IN  applyFilters(sheet.data, filters, Some(nameMapping), facultyColumn)

\* the page getFilteredData returns
FilteredResponse(filters, page, filteredData) ==
    [op |-> "filtered", filters |-> filters, page |-> page,
     data |-> Slice(filteredData, (page - 1) * PAGE_SIZE,
                    (page - 1) * PAGE_SIZE + PAGE_SIZE),
     totalRows |-> Len(filteredData)]

\* getFilteredData(url, filterState, page, 50); within one snapshot a hit on
\* the filtered_ entry of this filter key holds the rows computed here
GetFilteredData ==
    /\ dsNameMapping' = Some(NameMappingFor(dsNameMapping, dsData.data,
                                            FindFacultyColumn(dsData.headers)))
    /\ \E page \in 1..MaxPage :
          dsResp' = FilteredResponse(dsFilterState, page,
                        FilteredRows(dsData, dsNameMapping, dsFilterState))
    /\ UNCHANGED <<dsData, dsMerged, dsDynamicFilters, dsFilterState, dsClicks,
                   normVars, groupVars, cacheVars,
                   filterVars, clearVars, mergeVars,
                   laterVars>>

\* what getFilteredDataForExport returns
ExportResponse(filters, filteredData) ==
    [op |-> "export", filters |-> filters,
     data |-> filteredData, totalRows |-> Len(filteredData)]

GetFilteredDataForExport ==
    /\ dsNameMapping' = Some(NameMappingFor(dsNameMapping, dsData.data,
                                            FindFacultyColumn(dsData.headers)))
    /\ dsResp' = ExportResponse(dsFilterState,
                    FilteredRows(dsData, dsNameMapping, dsFilterState))
    /\ UNCHANGED <<dsData, dsMerged, dsDynamicFilters, dsFilterState, dsClicks,
                   normVars, groupVars, cacheVars,
                   filterVars, clearVars, mergeVars,
                   laterVars>>

NextData ==
    \/ GetSheetMetadata
    \/ HandleMergedOptionChange
    \/ GetAnalytics
    \/ GetFilteredData
    \/ GetFilteredDataForExport

SpecData == InitData /\ [][NextData]_vars
----------------------------------------------------------------------------
(* SpecFilter: applyFilters applied to a row list and a filters object      *)
(* whose categories need not be columns of the sheet                        *)

SectionHeader == "Section"       \* not a column of the modelled sheet
SecA == <<"A">>

\* the value lists a request may carry for one category
FilterValues(category) ==
    IF category = FacultyHeader THEN { <<RAO>>, <<DrRao>> }
    ELSE IF category = DeptHeader THEN { <<CS>> }
    ELSE { <<>>, <<SecA>>, << <<>> >> }

FilterObjects ==
    UNION { { f \in [cats -> UNION { FilterValues(c) : c \in cats }] :
                \A c \in cats : f[c] \in FilterValues(c) } :
            cats \in SUBSET {FacultyHeader, DeptHeader, SectionHeader} }

InitFilter ==
    /\ afData \in { d.data : d \in Datasets }
    /\ afFilters \in FilterObjects
    /\ afOut = <<>>
    /\ afPc = "in"
    /\ NormIdle
    /\ GroupIdle
    /\ DataIdle
    /\ CacheIdle
    /\ ClearIdle
    /\ MergeIdle
    /\ LaterIdle

\* applyFilters as getFilteredData calls it: the raw rows, the name mapping of
\* the sheet, the faculty column
ApplyFilters ==
    /\ afPc = "in"
    /\ afOut' = applyFilters(afData, afFilters,
                             Some(createNameMapping(afData, FacultyHeader)),
                             FacultyHeader)
    /\ afPc' = "done"
    /\ UNCHANGED <<afData, afFilters, normVars, groupVars, dataVars, cacheVars,
                   clearVars, mergeVars,
                   laterVars>>

NextFilter == ApplyFilters

SpecFilter == InitFilter /\ [][NextFilter]_vars
----------------------------------------------------------------------------
(* Spec: CacheService (over node-cache), GoogleSheetsService.getSheetData  *)
(* and AnalyticsService.getAnalytics for one sheet under concurrent        *)
(* requests.  Node runs a request without interruption until it awaits the *)
(* upstream fetch, and runs every continuation of a settled fetch before   *)
(* it takes the next event; a step of the model is one such run.  Sheet    *)
(* data is represented by the version of the spreadsheet it was read from, *)
(* a name mapping by the version of the data it was built from, an         *)
(* analytics record by the pair of both.                                   *)

\* TTLs and the refresh threshold, in seconds
SHEET_DATA_CACHE_TTL   == 600
ANALYTICS_CACHE_TTL    == 300
NAME_MAPPING_CACHE_TTL == 600
REFRESH_THRESHOLD      == 120

\* the clock advances in steps of half the refresh threshold
TickSeconds == REFRESH_THRESHOLD \div 2

MaxRequests == 3
MaxVersion == 2
MaxFetches == 2
MaxTasks == 2

FilterKeys == {"all", "f1"}

SheetKey == <<"sheet_data">>
NameMappingKey == <<"namemapping">>
AnalyticsKey(filterKey) == <<"analytics", filterKey>>
AnalyticsKeys == { AnalyticsKey(f) : f \in FilterKeys }
CacheKeys == {SheetKey, NameMappingKey} \cup AnalyticsKeys

\* NodeCache.get: undefined once the TTL has run out
cacheGet(c, key) == IF c[key] = Null THEN Null ELSE Some(c[key][1].value)

\* isExpiringSoon with <= in place of <
isExpiringSoonInclusive(c, key, thresholdSeconds) ==
    IF c[key] = Null THEN TRUE ELSE c[key][1].ttl <= thresholdSeconds

isExpiringSoon(c, key, thresholdSeconds) ==
    IF c[key] = Null THEN TRUE ELSE c[key][1].ttl < thresholdSeconds

\* a set that leaves an entry already present with the time it had left
cacheSetKeepsTtl(c, key, value, ttl) ==
    [c EXCEPT ![key] = Some([value |-> value,
                             ttl |-> IF @ = Null THEN ttl ELSE @[1].ttl])]

cacheSet(c, key, value, ttl) ==
    [c EXCEPT ![key] = Some([value |-> value, ttl |-> ttl])]

\* the smallest identifier not in use
FreeId(used) == CHOOSE i \in 1..(Cardinality(used) + 1) :
                    i \notin used /\ \A j \in 1..(i - 1) : j \in used

Insert(f, id, x) == [i \in DOMAIN f \cup {id} |-> IF i = id THEN x ELSE f[i]]
Remove(f, ids) == [i \in DOMAIN f \ ids |-> f[i]]

\* what one run works on: the services' state, and a record of what the run
\* started (computeAnalytics runs), answered and logged as failed refreshes
World == [cache |-> cache, pendingFetches |-> pendingFetches,
          fetches |-> fetches, tasks |-> tasks, lastGood |-> lastGood,
          started |-> 0, responses |-> {}, failures |-> {}]

NoAnalytics == [data |-> 0, nameMapping |-> 0]

\* a pendingFetches lookup that never finds the fetch in flight
pendingFetchNone(w) == Null

\* this.pendingFetches.has(cacheKey) / .get(cacheKey)
pendingFetch(w) == w.pendingFetches

\* getSheetData(sheetUrl) up to its return or its await of the upstream
\* fetch: hit says it returned cached data, waitOn names the fetch awaited
getSheetData(w) ==
    LET cached == cacheGet(w.cache, SheetKey)
        fid == FreeId(DOMAIN w.fetches)
    IN  IF cached # Null
        THEN \* getWithBackgroundRefresh: serve the entry, and refresh it
             \* when it is about to expire
             [world |-> IF isExpiringSoon(w.cache, SheetKey, REFRESH_THRESHOLD)
                        THEN [w EXCEPT !.fetches = Insert(@, fid, [kind |-> "bg"])]
                        ELSE w,
              hit |-> TRUE, data |-> cached[1], waitOn |-> 0]
        ELSE IF pendingFetch(w) # Null
        THEN [world |-> w, hit |-> FALSE, data |-> 0, waitOn |-> pendingFetch(w)[1]]
        ELSE [world |-> [w EXCEPT !.fetches = Insert(@, fid, [kind |-> "fg"]),
                                  !.pendingFetches = Some(fid)],
              hit |-> FALSE, data |-> 0, waitOn |-> fid]

\* what the catch block of backgroundRefresh does to the cache: it evicts
AfterRefreshErrorEvicts(c, key) == [c EXCEPT ![key] = Null]

\* what the catch block of backgroundRefresh does to the cache: nothing
AfterRefreshError(c, key) == c

\* computeAnalytics from the return of getSheetData on, and its caller:
\* kind "fg" is getAnalytics answering a request (with an error when the
\* fetch failed), kind "bg" is backgroundRefresh, which stores the value
\* again or logs the error
computeAnalyticsResume(w, kind, filterKey, ok, data) ==
    LET key == AnalyticsKey(filterKey)
        cachedMapping == cacheGet(w.cache, NameMappingKey)
        nameMapping == IF cachedMapping # Null THEN cachedMapping[1] ELSE data
        c1 == IF cachedMapping # Null THEN w.cache
              ELSE cacheSet(w.cache, NameMappingKey, nameMapping,
                            NAME_MAPPING_CACHE_TTL)
        analytics == [data |-> data, nameMapping |-> nameMapping]
    IN  IF ok
        THEN [w EXCEPT
                !.cache = cacheSet(c1, key, analytics, ANALYTICS_CACHE_TTL),
                !.lastGood = [@ EXCEPT ![key] = Some(analytics)],
                !.responses = IF kind = "fg"
                              THEN @ \cup {[fkey |-> filterKey, ok |-> TRUE,
                                            value |-> analytics]}
                              ELSE @]
        ELSE IF kind = "fg"
        THEN [w EXCEPT !.responses = @ \cup {[fkey |-> filterKey, ok |-> FALSE,
                                              value |-> NoAnalytics]}]
        ELSE [w EXCEPT !.cache = AfterRefreshError(@, key),
                       !.failures = @ \cup {key}]

\* computeAnalytics(sheetUrl, filters): runs to its end when getSheetData
\* returns cached data, else waits for the fetch
computeAnalyticsRun(w, kind, filterKey) ==
    LET r == getSheetData([w EXCEPT !.started = @ + 1])
    IN  IF r.hit
        THEN computeAnalyticsResume(r.world, kind, filterKey, TRUE, r.data)
        ELSE [r.world EXCEPT
                !.tasks = Insert(@, FreeId(DOMAIN @),
                                 [kind |-> kind, fkey |-> filterKey,
                                  waitOn |-> r.waitOn])]

\* getAnalytics(sheetUrl, filters): a hit answers with the entry and, when
\* the entry is about to expire, starts backgroundRefresh; a miss runs
\* computeAnalytics in the request
getAnalytics(w, filterKey) ==
    LET key == AnalyticsKey(filterKey)
        cached == cacheGet(w.cache, key)
        w1 == IF cached # Null /\ isExpiringSoon(w.cache, key, REFRESH_THRESHOLD)
              THEN computeAnalyticsRun(w, "bg", filterKey)
              ELSE w
    IN  IF cached # Null
        THEN [w1 EXCEPT !.responses = @ \cup {[fkey |-> filterKey, ok |-> TRUE,
                                               value |-> cached[1]]}]
        ELSE computeAnalyticsRun(w, "fg", filterKey)

\* the bounds leave room for what the run started
Fits(w) ==
    /\ Cardinality(DOMAIN w.tasks) <= MaxTasks
    /\ Cardinality(DOMAIN w.fetches) <= MaxFetches

NoEvent == [type |-> "none", responses |-> {}, failures |-> {}]

InitCache ==
    /\ cache = [k \in CacheKeys |-> Null]
    /\ pendingFetches = Null
    /\ fetches = <<>>
    /\ tasks = <<>>
    /\ upstream = 1
    /\ issued = 0
    /\ lastGood = [k \in AnalyticsKeys |-> Null]
    /\ lastEvent = NoEvent
    /\ NormIdle
    /\ GroupIdle
    /\ DataIdle
    /\ OthersIdle
    /\ LaterIdle

Commit(w) ==
    /\ cache' = w.cache
    /\ pendingFetches' = w.pendingFetches
    /\ fetches' = w.fetches
    /\ tasks' = w.tasks
    /\ lastGood' = w.lastGood

\* POST /aggregate
GetAnalyticsRequest(filterKey) ==
    LET key == AnalyticsKey(filterKey)
        w == getAnalytics(World, filterKey)
    IN  /\ issued < MaxRequests
        /\ Fits(w)
        /\ issued' = issued + 1
        /\ Commit(w)
        /\ lastEvent' =
             [type |-> "request", fkey |-> filterKey,
              hit |-> cache[key] # Null,
              entry |-> cache[key],
              started |-> w.started,
              fetchesStarted |-> Cardinality(DOMAIN w.fetches)
                                    - Cardinality(DOMAIN fetches),
              refreshFetch |-> \E id \in DOMAIN w.fetches \ DOMAIN fetches :
                                    w.fetches[id].kind = "bg",
              responses |-> w.responses, failures |-> w.failures]
        /\ UNCHANGED <<upstream, normVars, groupVars, dataVars,
                   filterVars, clearVars, mergeVars,
                   laterVars>>

Waiting(ts, id) == { t \in DOMAIN ts : ts[t].waitOn = id }

Least(S) == CHOOSE x \in S : \A y \in S : x <= y

\* the runs awaiting a fetch continue in the order they began to wait
RECURSIVE ResumeAll(_, _, _, _)
ResumeAll(w, ids, ok, data) ==
    IF ids = {} THEN w
    ELSE LET t == Least(ids)
         IN  ResumeAll(computeAnalyticsResume(w, w.tasks[t].kind, w.tasks[t].fkey,
                                              ok, data),
                       ids \ {t}, ok, data)

\* fetchSheetDataRaw resolves.  For the fetch getSheetData started, its
\* continuation stores the result and clears pendingFetches, then the
\* waiting runs continue; for the fetch of a background refresh,
\* backgroundRefresh stores the result.
FetchSucceedStep(id, value) ==
    /\ id \in DOMAIN fetches
    /\ LET w0 == [World EXCEPT
                    !.cache = cacheSet(@, SheetKey, value, SHEET_DATA_CACHE_TTL),
                    !.pendingFetches = IF fetches[id].kind = "fg" THEN Null ELSE @,
                    !.fetches = Remove(@, {id})]
           ids == IF fetches[id].kind = "fg" THEN Waiting(tasks, id) ELSE {}
           w1 == ResumeAll(w0, ids, TRUE, value)
           w == [w1 EXCEPT !.tasks = Remove(@, ids)]
       IN  /\ Commit(w)
           /\ lastEvent' = [type |-> "fetchDone", id |-> id,
                            kind |-> fetches[id].kind, ok |-> TRUE,
                            value |-> value,
                            resumed |-> [t \in ids |-> tasks[t]],
                            before |-> cache,
                            responses |-> w.responses, failures |-> w.failures]

FetchSucceed(id) ==
    /\ FetchSucceedStep(id, upstream)
    /\ UNCHANGED <<upstream, issued, normVars, groupVars, dataVars,
                   filterVars, clearVars, mergeVars,
                   laterVars>>

\* fetchSheetDataRaw rejects.  getSheetData clears pendingFetches and
\* rethrows to every waiting run; backgroundRefresh logs the error.
FetchFailStep(id) ==
    /\ id \in DOMAIN fetches
    /\ LET w0 == [World EXCEPT
                    !.cache = IF fetches[id].kind = "bg"
                              THEN AfterRefreshError(@, SheetKey) ELSE @,
                    !.failures = IF fetches[id].kind = "bg" THEN {SheetKey} ELSE @,
                    !.pendingFetches = IF fetches[id].kind = "fg" THEN Null ELSE @,
                    !.fetches = Remove(@, {id})]
           ids == IF fetches[id].kind = "fg" THEN Waiting(tasks, id) ELSE {}
           w1 == ResumeAll(w0, ids, FALSE, 0)
           w == [w1 EXCEPT !.tasks = Remove(@, ids)]
       IN  /\ Commit(w)
           /\ lastEvent' = [type |-> "fetchDone", id |-> id,
                            kind |-> fetches[id].kind, ok |-> FALSE,
                            value |-> 0,
                            resumed |-> [t \in ids |-> tasks[t]],
                            before |-> cache,
                            responses |-> w.responses, failures |-> w.failures]

FetchFail(id) ==
    /\ FetchFailStep(id)
    /\ UNCHANGED <<upstream, issued, normVars, groupVars, dataVars,
                   filterVars, clearVars, mergeVars,
                   laterVars>>

\* somebody edits the spreadsheet
EditSheet ==
    /\ upstream < MaxVersion
    /\ upstream' = upstream + 1
    /\ lastEvent' = NoEvent
    /\ UNCHANGED <<cache, pendingFetches, fetches, tasks, issued, lastGood,
                   normVars, groupVars, dataVars,
                   filterVars, clearVars, mergeVars,
                   laterVars>>

\* TickSeconds pass: every entry is that much closer to its expiry, an entry
\* past it is gone
Tick ==
    /\ \E k \in CacheKeys : cache[k] # Null
    /\ cache' = [k \in CacheKeys |->
                    IF cache[k] = Null THEN Null
                    ELSE IF cache[k][1].ttl < TickSeconds THEN Null
                    ELSE Some([cache[k][1] EXCEPT !.ttl = @ - TickSeconds])]
    /\ lastEvent' = NoEvent
    /\ UNCHANGED <<pendingFetches, fetches, tasks, upstream, issued, lastGood,
                   normVars, groupVars, dataVars,
                   filterVars, clearVars, mergeVars,
                   laterVars>>

Next ==
    \/ \E f \in FilterKeys : GetAnalyticsRequest(f)
    \/ \E id \in 1..MaxFetches : FetchSucceed(id)
    \/ \E id \in 1..MaxFetches : FetchFail(id)
    \/ EditSheet
    \/ Tick

Spec == InitCache /\ [][Next]_vars

(***************************************************************************)
(* SpecInvalidate: the same services with the two invalidation routes.     *)
(* The upstream fetch is a request in flight: the spreadsheet is read      *)
(* when the request is served upstream, and the result reaches the         *)
(* continuation of getSheetData later.                                     *)
(***************************************************************************)
MaxClears == 1

\* cacheService.clearForSheet(sheetUrl): the keys that contain the url; the
\* key of the sheet data holds the spreadsheet id, not the url
clearForSheet(c) == [k \in CacheKeys |-> IF k = SheetKey THEN c[k] ELSE Null]

\* analyticsService.clearNameMappingCache(sheetUrl) on these keys
clearNameMappingEntries(c) ==
    [k \in CacheKeys |->
        IF k = NameMappingKey \/ k \in AnalyticsKeys THEN Null ELSE c[k]]

\* what an invalidation finds in flight: the runs awaiting a fetch, and the
\* fetches that have read the spreadsheet already
FoundInFlight ==
    [tasks |-> ivOld.tasks \cup DOMAIN tasks,
     fetches |-> ivOld.fetches \cup DOMAIN ivReads]

Invalidate(route, c) ==
    /\ ivClears < MaxClears
    /\ cache' = c
    /\ ivOld' = FoundInFlight
    /\ ivClears' = ivClears + 1
    /\ ivLast' = [type |-> "clear", route |-> route]
    /\ lastEvent' = NoEvent

\* POST /refresh-cache with a url
PostRefreshCache ==
    /\ Invalidate("refresh-cache", clearForSheet(cache))
    /\ UNCHANGED <<pendingFetches, fetches, tasks, upstream, issued, lastGood,
                   ivReads, normVars, groupVars, dataVars,
                   filterVars, clearVars, mergeVars,
                   trendVars, displayVars, similarVars, questionVars, rowVars,
                   overlayVars>>

\* POST /clear-name-cache
PostClearNameCache ==
    /\ Invalidate("clear-name-cache", clearNameMappingEntries(cache))
    /\ UNCHANGED <<pendingFetches, fetches, tasks, upstream, issued, lastGood,
                   ivReads, normVars, groupVars, dataVars,
                   filterVars, clearVars, mergeVars,
                   trendVars, displayVars, similarVars, questionVars, rowVars,
                   overlayVars>>

\* the upstream serves the request of fetchSheetDataRaw
FetchRead(id) ==
    /\ id \in DOMAIN fetches
    /\ id \notin DOMAIN ivReads
    /\ ivReads' = Insert(ivReads, id, upstream)
    /\ UNCHANGED <<cacheVars, ivOld, ivClears, ivLast,
                   normVars, groupVars, dataVars,
                   filterVars, clearVars, mergeVars,
                   trendVars, displayVars, similarVars, questionVars, rowVars,
                   overlayVars>>

\* the entries the runs in ids store when they continue: each its analytics
\* entry, the first of them the name mapping when none is cached
StoredBy(ids, resumed) ==
    { AnalyticsKey(tasks[t].fkey) : t \in ids }
        \cup (IF /\ ids # {}
                 /\ cache[NameMappingKey] = Null
                 /\ Least(resumed) \in ids
              THEN {NameMappingKey} ELSE {})

Forget(id, ids) ==
    /\ ivReads' = Remove(ivReads, {id})
    /\ ivOld' = [tasks |-> ivOld.tasks \ ids, fetches |-> ivOld.fetches \ {id}]

\* the result of fetchSheetDataRaw reaches its continuation
FetchDeliver(id) ==
    /\ id \in DOMAIN ivReads
    /\ FetchSucceedStep(id, ivReads[id])
    /\ LET resumed == IF fetches[id].kind = "fg" THEN Waiting(tasks, id) ELSE {}
           old == IF id \in ivOld.fetches THEN resumed \cap ivOld.tasks ELSE {}
       IN  /\ Forget(id, resumed)
           /\ ivLast' = [type |-> "deliver", id |-> id,
                         stored |-> StoredBy(resumed, resumed),
                         stale |-> StoredBy(old, resumed)]
    /\ UNCHANGED <<upstream, issued, ivClears, normVars, groupVars, dataVars,
                   filterVars, clearVars, mergeVars,
                   trendVars, displayVars, similarVars, questionVars, rowVars,
                   overlayVars>>

\* the request of fetchSheetDataRaw fails
FetchAbort(id) ==
    /\ FetchFailStep(id)
    /\ Forget(id, IF fetches[id].kind = "fg" THEN Waiting(tasks, id) ELSE {})
    /\ ivLast' = [type |-> "fail", id |-> id]
    /\ UNCHANGED <<upstream, issued, ivClears, normVars, groupVars, dataVars,
                   filterVars, clearVars, mergeVars,
                   trendVars, displayVars, similarVars, questionVars, rowVars,
                   overlayVars>>

NextInvalidate ==
    \/ \E f \in FilterKeys : GetAnalyticsRequest(f)
    \/ \E id \in 1..MaxFetches : FetchRead(id)
    \/ \E id \in 1..MaxFetches : FetchDeliver(id)
    \/ \E id \in 1..MaxFetches : FetchAbort(id)
    \/ EditSheet
    \/ Tick
    \/ PostRefreshCache
    \/ PostClearNameCache

SpecInvalidate == InitCache /\ [][NextInvalidate]_vars
----------------------------------------------------------------------------
(* SpecClear: the cache keys of AnalyticsService for several sheets, and    *)
(* clearNameMappingCache.  A cache key is the sequence of its kind, "_",    *)
(* the characters of the sheet url and, for analytics_ and filtered_ keys,  *)
(* "_" and the filter key.  A request is one step: after its await of       *)
(* getSheetData it reads and writes the cache without interruption.         *)

UrlA  == <<"u">>
UrlA2 == <<"u", "2">>          \* a url that starts with UrlA
Urls == { UrlA, UrlA2 }

NameMappingKeyOf(sheetUrl) == <<"namemapping", "_">> \o sheetUrl
MetadataKeyOf(sheetUrl) == <<"metadata", "_">> \o sheetUrl
AnalyticsKeyOf(sheetUrl, filterKey) ==
    <<"analytics", "_">> \o sheetUrl \o <<"_", filterKey>>
FilteredKeyOf(sheetUrl, filterKey) ==
    <<"filtered", "_">> \o sheetUrl \o <<"_", filterKey>>

\* key.startsWith(prefix)
startsWith(key, prefix) ==
    /\ Len(prefix) <= Len(key)
    /\ SubSeq(key, 1, Len(prefix)) = prefix

\* CacheService.delete on the set of keys held
cacheDelete(keys, key) == keys \ {key}

\* clearByPrefix deleting the key equal to the prefix only
clearExactKey(keys, prefix) == keys \ {prefix}

\* CacheService.clearByPrefix
clearByPrefix(keys, prefix) == { k \in keys : ~startsWith(k, prefix) }

clearNameMappingCache(keys, sheetUrl) ==
    clearByPrefix(
        clearByPrefix(
            clearByPrefix(cacheDelete(keys, NameMappingKeyOf(sheetUrl)),
                          <<"metadata", "_">> \o sheetUrl),
            <<"analytics", "_">> \o sheetUrl),
        <<"filtered", "_">> \o sheetUrl)

InitClear ==
    /\ ccCache = {}
    /\ ccCleared = {}
    /\ ccLast = [op |-> "none"]
    /\ NormIdle
    /\ GroupIdle
    /\ DataIdle
    /\ CacheIdle
    /\ FilterIdle
    /\ MergeIdle
    /\ LaterIdle

\* a request whose result is cached under resultKey: on a miss it computes,
\* creating and caching the name mapping when that is not cached
Request(sheetUrl, resultKey) ==
    /\ ccCache' = IF resultKey \in ccCache THEN ccCache
                  ELSE ccCache \cup {NameMappingKeyOf(sheetUrl), resultKey}
    /\ ccCleared' = ccCleared \ {sheetUrl}
    /\ ccLast' = [op |-> "request", url |-> sheetUrl, key |-> resultKey,
                  afterClear |-> sheetUrl \in ccCleared,
                  createdNameMapping |->
                      /\ resultKey \notin ccCache
                      /\ NameMappingKeyOf(sheetUrl) \notin ccCache]
    /\ UNCHANGED <<normVars, groupVars, dataVars, cacheVars, filterVars, mergeVars,
                   laterVars>>

\* getSheetMetadata / buildMetadata
MetadataRequest(sheetUrl) == Request(sheetUrl, MetadataKeyOf(sheetUrl))

\* getAnalytics / computeAnalytics
AnalyticsRequest(sheetUrl, filterKey) ==
    Request(sheetUrl, AnalyticsKeyOf(sheetUrl, filterKey))

\* getFilteredData
FilteredDataRequest(sheetUrl, filterKey) ==
    Request(sheetUrl, FilteredKeyOf(sheetUrl, filterKey))

\* POST /clear-name-cache
ClearNameMappingCache(sheetUrl) ==
    /\ ccCache' = clearNameMappingCache(ccCache, sheetUrl)
    /\ ccCleared' = ccCleared \cup {sheetUrl}
    /\ ccLast' = [op |-> "clear", url |-> sheetUrl,
                  removed |-> ccCache \ clearNameMappingCache(ccCache, sheetUrl)]
    /\ UNCHANGED <<normVars, groupVars, dataVars, cacheVars, filterVars, mergeVars,
                   laterVars>>

NextClear ==
    \/ \E sheetUrl \in Urls : MetadataRequest(sheetUrl)
    \/ \E sheetUrl \in Urls, filterKey \in FilterKeys :
          AnalyticsRequest(sheetUrl, filterKey)
    \/ \E sheetUrl \in Urls, filterKey \in FilterKeys :
          FilteredDataRequest(sheetUrl, filterKey)
    \/ \E sheetUrl \in Urls : ClearNameMappingCache(sheetUrl)

SpecClear == InitClear /\ [][NextClear]_vars

----------------------------------------------------------------------------
(* SpecMerge: the merge overlay of one sheet in a dashboard session and in  *)
(* the user's record.  The session starts with the overlay loaded; the PUT  *)
(* of a handler is answered before the next operation.                      *)

MaxSelected == 3
MaxMergeOps == 2

MergeNamePool == <<DrRao, RAO, RaoSir, Tanvi>>

\* the names a merge is confirmed with: options in display order
RECURSIVE SubSequences(_)
SubSequences(seq) ==
    IF seq = <<>> THEN { <<>> }
    ELSE LET rest == SubSequences(Tail(seq))
         IN  rest \cup { <<Head(seq)>> \o r : r \in rest }

Selections == { sel \in SubSequences(MergeNamePool) : Len(sel) <= MaxSelected }

\* the canonical name of the modal: cleared, a custom name, a selected name
CanonicalChoices == { <<>>, Rao, DrRao }

\* the overlays another client of the API sends
PutBodies ==
    { [c \in {FacultyHeader} |-> << [canonical |-> canonical, variants |-> variants] >>] :
        canonical \in CanonicalChoices, variants \in { <<RAO>>, <<DrRao, RAO>> } }

InitMerge ==
    /\ mgMerged = <<>>
    /\ mgPersisted = <<>>
    /\ mgFilterState = <<>>
    /\ mgOps = 0
    /\ mgLast = [op |-> "none"]
    /\ NormIdle
    /\ GroupIdle
    /\ DataIdle
    /\ CacheIdle
    /\ FilterIdle
    /\ ClearIdle
    /\ LaterIdle

\* PUT /merged-names/:sheetId with a mergedNames object in the body
putMergedNames(persisted, mergedNames) == mergedNames

\* the Merge button of the modal
HandleConfirmMerge ==
    /\ mgOps < MaxMergeOps
    /\ mgOps' = mgOps + 1
    /\ \E canonical \in CanonicalChoices, selected \in Selections :
         IF MergeRejected(canonical, selected)
         THEN /\ mgLast' = [op |-> "merge", rejected |-> TRUE,
                            canonical |-> canonical, selected |-> selected,
                            merged |-> mgMerged, persisted |-> mgPersisted]
              /\ UNCHANGED <<mgMerged, mgPersisted, mgFilterState>>
         ELSE /\ mgMerged' = handleConfirmMerge(mgMerged, FacultyHeader,
                                                canonical, selected)
              /\ mgFilterState' = MergeFilterState(mgFilterState, FacultyHeader,
                                                   selected)
              /\ \E saved \in BOOLEAN :
                    mgPersisted' = IF saved
                                   THEN putMergedNames(mgPersisted, mgMerged')
                                   ELSE mgPersisted
              /\ mgLast' = [op |-> "merge", rejected |-> FALSE,
                            canonical |-> canonical, selected |-> selected,
                            merged |-> mgMerged, persisted |-> mgPersisted]
    /\ UNCHANGED <<normVars, groupVars, dataVars, cacheVars, filterVars, clearVars,
                   laterVars>>

\* the unmerge button of one canonical name of the overlay
HandleUnmerge ==
    /\ mgOps < MaxMergeOps
    /\ mgOps' = mgOps + 1
    /\ \E e \in SeqToSet(CategoryMerges(mgMerged, FacultyHeader)) :
         /\ mgMerged' = handleUnmerge(mgMerged, FacultyHeader, e.canonical)
         /\ \E saved \in BOOLEAN :
               mgPersisted' = IF saved
                              THEN putMergedNames(mgPersisted, mgMerged')
                              ELSE mgPersisted
         /\ mgLast' = [op |-> "unmerge", rejected |-> FALSE,
                       canonical |-> e.canonical,
                       merged |-> mgMerged, persisted |-> mgPersisted]
    /\ UNCHANGED <<mgFilterState, normVars, groupVars, dataVars, cacheVars,
                   filterVars, clearVars,
                   laterVars>>

\* PUT /merged-names/:sheetId sent by another client of the API
PutMergedNames ==
    /\ mgOps < MaxMergeOps
    /\ mgOps' = mgOps + 1
    /\ \E body \in PutBodies :
         /\ mgPersisted' = putMergedNames(mgPersisted, body)
         /\ mgLast' = [op |-> "put", rejected |-> FALSE, body |-> body,
                       merged |-> mgMerged, persisted |-> mgPersisted]
    /\ UNCHANGED <<mgMerged, mgFilterState, normVars, groupVars, dataVars,
                   cacheVars, filterVars, clearVars,
                   laterVars>>

NextMerge == HandleConfirmMerge \/ HandleUnmerge \/ PutMergedNames

SpecMerge == InitMerge /\ [][NextMerge]_vars
----------------------------------------------------------------------------
(* SpecTrend: calculateTimeTrends on small sheets with a Timestamp column  *)

MaxTrendRows == 3

TrendHeaders == <<TimestampHeader, QuestionHeader>>

\* what new Date(timestamp) yields for the timestamps of the pool; an empty
\* cell is <<>>
DateOf(y, m, d) == [year |-> y, month |-> m, day |-> d]
TrendDates == { DateOf(2023, 12, 30), DateOf(2024, 1, 5), DateOf(2024, 2, 10),
                DateOf(2024, 4, 20), DateOf(2025, 1, 6), <<>> }

TrendRow(timestamp, q) ==
    [h \in {TimestampHeader, QuestionHeader} |->
        IF h = TimestampHeader THEN timestamp ELSE q]

\* a question cell holds a rating, or 0 for a cell without one
TrendRowPool == { TrendRow(t, q) : t \in TrendDates, q \in {0, 4} }

InitTrend ==
    /\ ttData \in UNION { [1..n -> TrendRowPool] : n \in 0..MaxTrendRows }
    /\ ttOut = <<>>
    /\ ttPc = "in"
    /\ TrendRestIdle

\* calculateTimeTrends as calculateAnalytics calls it, with the question
\* columns identifyQuestionColumns found
CalculateTimeTrends ==
    /\ ttPc = "in"
    /\ ttOut' = calculateTimeTrends(ttData, TrendHeaders,
                                    identifyQuestionColumns(TrendHeaders, ttData))
    /\ ttPc' = "done"
    /\ UNCHANGED <<ttData, trendRest>>

NextTrend == CalculateTimeTrends

SpecTrend == InitTrend /\ [][NextTrend]_vars

----------------------------------------------------------------------------
(* SpecDisplay: getDisplayOptions on small option lists and overlays       *)

MaxOptions == 3

DisplayNamePool == {DrRao, RAO, Rao, Tanvi}

\* the option lists of a category: distinct values, as buildMetadata makes
\* them
OptionLists ==
    { o \in UNION { [1..n -> DisplayNamePool] : n \in 0..MaxOptions } :
        \A i, j \in 1..Len(o) : i # j => o[i] # o[j] }

\* the entries an overlay may hold, made in the dashboard or sent to the
\* PUT route
OverlayEntries ==
    { [canonical |-> Rao, variants |-> <<DrRao, RAO>>],
      [canonical |-> Rao, variants |-> <<DrRao, Tanvi>>],
      [canonical |-> Tanvi, variants |-> <<Tanvi, RAO>>],
      [canonical |-> DrRao, variants |-> <<Rao, RAO>>] }

\* overlays of the faculty column with up to two entries, one per canonical
DisplayOverlays ==
    {<<>>} \cup
    { [c \in {FacultyHeader} |-> es] :
        es \in { e \in UNION { [1..n -> OverlayEntries] : n \in 1..2 } :
                   \A i, j \in 1..Len(e) :
                       i # j => e[i].canonical # e[j].canonical } }

InitDisplay ==
    /\ doOptions \in OptionLists
    /\ doMerged \in DisplayOverlays
    /\ doOut = <<>>
    /\ doPc = "in"
    /\ DisplayRestIdle

\* the filter panel resolves the options of the faculty column
GetDisplayOptions ==
    /\ doPc = "in"
    /\ doOut' = getDisplayOptions(doMerged, FacultyHeader, doOptions)
    /\ doPc' = "done"
    /\ UNCHANGED <<doOptions, doMerged, displayRest>>

NextDisplay == GetDisplayOptions

SpecDisplay == InitDisplay /\ [][NextDisplay]_vars

----------------------------------------------------------------------------
(* SpecSimilar: findSimilarNames and groupSimilarNames on one pair of names *)

DrDotRao     == <<"D","r",".","R","a","o">>
ProfessorRao == <<"P","r","o","f","e","s","s","o","r"," ","R","a","o">>

SimilarNamePool == {Rao, DrRao, DrDotRao, RaoSir, RAO, ProfessorRao,
                    Tanvi, Tanvy, TanviMadaan}

\* 0.65 of the merge dialog, the default 0.7 of findSimilarNames, the
\* default 0.75 of groupSimilarNames
SimilarThresholds == {65, 70, 75}

InitSimilar ==
    /\ smTarget \in SimilarNamePool
    /\ smOther \in SimilarNamePool \ {smTarget}
    /\ smThreshold \in SimilarThresholds
    /\ smSuggested = <<>>
    /\ smGroups = <<>>
    /\ smPc = "in"
    /\ SimilarRestIdle

\* the merge dialog asks for the names similar to the selected one
FindSimilarNames ==
    /\ smPc = "in"
    /\ smSuggested' = findSimilarNames(smTarget, <<smOther>>, smThreshold)
    /\ smPc' = "suggested"
    /\ UNCHANGED <<smTarget, smOther, smThreshold, smGroups, similarRest>>

\* the grouping engine groups the two names, the selected one counted more
\* often so that it is the seed of the first group
GroupPair ==
    /\ smPc = "suggested"
    /\ smGroups' = groupSimilarNames(<< [name |-> smTarget, count |-> 2],
                                        [name |-> smOther, count |-> 1] >>,
                                     smThreshold)
    /\ smPc' = "grouped"
    /\ UNCHANGED <<smTarget, smOther, smThreshold, smSuggested, similarRest>>

NextSimilar == FindSimilarNames \/ GroupPair

SpecSimilar == InitSimilar /\ [][NextSimilar]_vars

----------------------------------------------------------------------------
(* identifyQuestionColumns and calculateQuestionScores on the text of the  *)
(* header and of the cells                                                 *)

\* a cell of the sheet is a number (kept in tenths) or a string
NumberCell(t) == [number |-> TRUE, tenths |-> t, text |-> <<>>]
StringCell(s) == [number |-> FALSE, tenths |-> 0, text |-> s]

\* String(n) for a number below 10 with at most one decimal
NumberText(t) ==
    <<DigitOf(t \div 10)>> \o (IF t % 10 = 0 THEN <<>> ELSE <<".", DigitOf(t % 10)>>)

\* String(rawValue || ''): 0 and the empty string are falsy
CellText(cell) ==
    IF cell.number THEN (IF cell.tenths = 0 THEN <<>> ELSE NumberText(cell.tenths))
    ELSE cell.text

IsDigit(c) == \E i \in 1..Len(DigitChars) : DigitChars[i] = c
DigitValue(c) == (CHOOSE i \in 1..Len(DigitChars) : DigitChars[i] = c) - 1

\* the longest prefix of digits
RECURSIVE LeadingDigits(_)
LeadingDigits(s) ==
    IF s # <<>> /\ IsDigit(Head(s)) THEN <<Head(s)>> \o LeadingDigits(Tail(s))
    ELSE <<>>

RECURSIVE DigitsValue(_, _)
DigitsValue(digits, acc) ==
    IF digits = <<>> THEN acc
    ELSE DigitsValue(Tail(digits), 10 * acc + DigitValue(Head(digits)))

\* parseFloat(val) of a trimmed string without sign or exponent, in
\* hundredths (decimals after the second are dropped); -1 stands for NaN
parseFloat(val) ==
    LET whole == LeadingDigits(val)
        rest == SubSeq(val, Len(whole) + 1, Len(val))
        decimals == IF rest # <<>> /\ Head(rest) = "."
                    THEN LeadingDigits(Tail(rest)) ELSE <<>>
        two == SubSeq(decimals \o <<"0", "0">>, 1, 2)
    IN  IF whole = <<>> /\ decimals = <<>> THEN -1
        ELSE 100 * DigitsValue(whole, 0) + DigitsValue(two, 0)

LIKERT_MAPPING ==
    (<<"s","t","r","o","n","g","l","y"," ","a","g","r","e","e">> :> 5) @@
    (<<"a","g","r","e","e">> :> 4) @@
    (<<"n","e","u","t","r","a","l">> :> 3) @@
    (<<"d","i","s","a","g","r","e","e">> :> 2) @@
    (<<"s","t","r","o","n","g","l","y"," ","d","i","s","a","g","r","e","e">> :> 1) @@
    (<<"e","x","c","e","l","l","e","n","t">> :> 5) @@
    (<<"v","e","r","y"," ","g","o","o","d">> :> 4) @@
    (<<"g","o","o","d">> :> 3) @@
    (<<"s","a","t","i","s","f","a","c","t","o","r","y">> :> 2) @@
    (<<"p","o","o","r">> :> 1) @@
    (<<"5">> :> 5) @@
    (<<"4">> :> 4) @@
    (<<"3">> :> 3) @@
    (<<"2">> :> 2) @@
    (<<"1">> :> 1)

metadataPatterns == <<
    <<"t","i","m","e","s","t","a","m","p">>,
    <<"e","m","a","i","l">>,
    <<"s","c","h","o","o","l"," ","n","a","m","e">>,
    <<"d","e","p","a","r","t","m","e","n","t">>,
    <<"s","e","m","e","s","t","e","r">>,
    <<"c","l","a","s","s","-","s","e","c","t","i","o","n">>,
    <<"n","a","m","e"," ","o","f"," ","f","a","c","u","l","t","y">>,
    <<"c","o","u","r","s","e"," ","n","a","m","e">>,
    <<"s","p","e","c","i","a","l"," ","r","e","m","a","r","k">> >>

Remark == <<"r","e","m","a","r","k">>
Special == <<"s","p","e","c","i","a","l">>

\* metadataPatterns.some(...)
isMetadata(headerLower) ==
    \E p \in 1..Len(metadataPatterns) :
        \/ headerLower = metadataPatterns[p]
        \/ startsWith(headerLower, metadataPatterns[p])
        \/ includes(headerLower, Remark) /\ includes(headerLower, Special)

\* the sample loop of identifyQuestionColumns for one value
IsRatingValue(cell) ==
    LET val == trim(toLowerCase(CellText(cell)))
        num == parseFloat(val)
    IN  \/ val \in DOMAIN LIKERT_MAPPING
        \/ num >= 100 /\ num <= 500

\* identifyQuestionColumns with the headers and the cells given as text
identifyQuestionColumnsText(headers, data) ==
    LET sampleSize == IF Len(data) < SAMPLE_SIZE THEN Len(data) ELSE SAMPLE_SIZE
    IN  SelectSeq(headers, LAMBDA header :
            /\ Len(trim(header)) >= 15
            /\ ~isMetadata(trim(toLowerCase(header)))
            /\ \E j \in 1..sampleSize : IsRatingValue(data[j][header]))

\* Math.round of a number given in tenths
RoundTenths(t) == (t + 5) \div 10

\* the score calculateQuestionScores gives one cell; 0 stands for undefined
QuestionCellScore(cell) ==
    IF cell.number /\ cell.tenths >= 10 /\ cell.tenths <= 50
    THEN RoundTenths(cell.tenths)
    ELSE LET value == trim(toLowerCase(CellText(cell)))
         IN  IF value \in DOMAIN LIKERT_MAPPING THEN LIKERT_MAPPING[value] ELSE 0

RECURSIVE SumSeq(_)
SumSeq(seq) == IF seq = <<>> THEN 0 ELSE Head(seq) + SumSeq(Tail(seq))

\* calculateQuestionScores: score in hundredths, 0 when no row has a valid
\* value
calculateQuestionScores(data, questionColumns) ==
    [q \in 1..Len(questionColumns) |->
        LET scores == [j \in 1..Len(data) |->
                          QuestionCellScore(data[j][questionColumns[q]])]
            validResponses == Cardinality({ j \in 1..Len(data) : scores[j] # 0 })
            totalScore == SumSeq(scores)
        IN  [question |-> questionColumns[q],
             score |-> IF validResponses > 0
                       THEN Round2(totalScore, validResponses) ELSE 0,
             validResponses |-> validResponses]]

----------------------------------------------------------------------------
(* SpecQuestion: one column of a sheet is classified and scored            *)

MaxQuestionRows == 3

ContentHeader == <<"C","o","n","t","e","n","t"," ","i","s"," ","d","e","l","i","v","e","r","e","d"," ","c","l","e","a","r","l","y">>
FifteenHeader == <<"C","l","a","r","i","t","y"," ","o","f"," ","t","a","l","k">>
FourteenHeader == <<"C","o","u","r","s","e"," ","c","l","a","r","i","t","y">>
RemarkHeader == <<"A","n","y"," ","r","e","m","a","r","k",","," ","s","p","e","c","i","a","l"," ","o","r"," ","n","o","t">>
DepartmentTextHeader == <<"D","e","p","a","r","t","m","e","n","t"," ","o","f"," ","t","h","e"," ","s","t","u","d","e","n","t">>
SpecialRemarkHeader == <<"S","p","e","c","i","a","l"," ","r","e","m","a","r","k">>
QuestionHeaderPool == {ContentHeader, FifteenHeader, FourteenHeader, RemarkHeader, DepartmentTextHeader, SpecialRemarkHeader}

StronglyAgree == <<"S","t","r","o","n","g","l","y"," ","A","g","r","e","e">>
AgreeLoud == <<" ","A","G","R","E","E"," ">>
Agree == <<"A","g","r","e","e">>
Neutral == <<"N","e","u","t","r","a","l">>
ThreeAndHalfText == <<"3",".","5">>
FourGood == <<"4"," ","-"," ","G","o","o","d">>
NotApplicable == <<"N","/","A">>

\* what a question cell may hold: answers in words, numbers, text that
\* begins with a number, and cells without an answer
QuestionCellPool ==
    { StringCell(t) : t \in {StronglyAgree, AgreeLoud, Agree, Neutral, ThreeAndHalfText, FourGood, NotApplicable, <<>>} }
        \cup { NumberCell(t) : t \in {0, 40, 35, 60} }

ColumnData(header, cellSeq) == [j \in 1..Len(cellSeq) |-> [h \in {header} |-> cellSeq[j]]]

InitQuestion ==
    /\ qcHeader \in QuestionHeaderPool
    /\ qcCells \in UNION { [1..n -> QuestionCellPool] : n \in 0..MaxQuestionRows }
    /\ qcColumns = <<>>
    /\ qcScores = <<>>
    /\ qcPc = "in"
    /\ QuestionRestIdle

\* computeAnalytics identifies the question columns of the rows
IdentifyQuestionColumns ==
    /\ qcPc = "in"
    /\ qcColumns' = identifyQuestionColumnsText(<<qcHeader>>,
                                                ColumnData(qcHeader, qcCells))
    /\ qcPc' = "identified"
    /\ UNCHANGED <<qcHeader, qcCells, qcScores, questionRest>>

\* calculateAnalytics scores them
CalculateQuestionScores ==
    /\ qcPc = "identified"
    /\ qcScores' = calculateQuestionScores(ColumnData(qcHeader, qcCells), qcColumns)
    /\ qcPc' = "scored"
    /\ UNCHANGED <<qcHeader, qcCells, qcColumns, questionRest>>

NextQuestion == IdentifyQuestionColumns \/ CalculateQuestionScores

SpecQuestion == InitQuestion /\ [][NextQuestion]_vars

----------------------------------------------------------------------------
(* Rows and arrays as objects.  The cache hands out references (useClones  *)
(* is false): a heap holds the row objects by address and the arrays as    *)
(* sequences of addresses; array 1 is the data array of the cached sheet.  *)

HeapOf(rows, array) == [rows |-> rows, arrays |-> <<array>>]

\* the rows an array holds, by value
Deref(h, a) == [i \in 1..Len(h.arrays[a]) |-> h.rows[h.arrays[a][i]]]

\* an applyNameMapping that writes the canonical name into the row it reads
applyNameMappingInPlace(h, a, facultyColumn, mapping) ==
    LET ids == h.arrays[a]
        mapped == applyNameMapping(Deref(h, a), facultyColumn, mapping)
    IN  [heap |-> [h EXCEPT !.rows =
                      [r \in 1..Len(h.rows) |->
                          IF \E i \in 1..Len(ids) : ids[i] = r
                          THEN mapped[CHOOSE i \in 1..Len(ids) : ids[i] = r]
                          ELSE h.rows[r]]],
         array |-> a]

\* applyNameMapping: data.map makes a new array, { ...row } a new object per
\* row; the rows read are left as they are
applyNameMappingHeap(h, a, facultyColumn, mapping) ==
    LET ids == h.arrays[a]
        n == Len(h.rows)
        newRows == applyNameMapping(Deref(h, a), facultyColumn, mapping)
    IN  [heap |-> [rows |-> h.rows \o newRows,
                   arrays |-> Append(h.arrays, [i \in 1..Len(ids) |-> n + i])],
         array |-> Len(h.arrays) + 1]

\* applyFilters: the array it was given when no category is selected, else a
\* new array of the row objects that match
applyFiltersHeap(h, a, filters, nameMapping, facultyColumn) ==
    LET activeKeys == { k \in DOMAIN filters : filters[k] # <<>> }
    IN  IF activeKeys = {} THEN [heap |-> h, array |-> a]
        ELSE [heap |-> [h EXCEPT !.arrays = Append(@,
                          SelectSeq(h.arrays[a], LAMBDA id :
                              RowMatches(h.rows[id], filters, activeKeys,
                                         nameMapping, facultyColumn)))],
              array |-> Len(h.arrays) + 1]

\* filteredData.slice(startIndex, endIndex): a new array of the same objects
sliceHeap(h, a, startIndex, endIndex) ==
    LET ids == h.arrays[a]
        last == IF endIndex < Len(ids) THEN endIndex ELSE Len(ids)
    IN  [heap |-> [h EXCEPT !.arrays = Append(@, SubSeq(ids, startIndex + 1, last))],
         array |-> Len(h.arrays) + 1]

----------------------------------------------------------------------------
(* SpecRows: requests on one cached sheet                                  *)

MaxCachedRows == 2

RowFilters == { <<>>,
                [c \in {FacultyHeader} |-> <<RAO>>],
                [c \in {DeptHeader} |-> <<CS>>] }

InitRows ==
    /\ rwFetched \in UNION { [1..n -> RowPool] : n \in 0..MaxCachedRows }
    /\ rwRows = rwFetched
    /\ rwArray = [i \in 1..Len(rwFetched) |-> i]
    /\ rwLast = [op |-> "none"]
    /\ RowsRestIdle

CachedHeap == HeapOf(rwRows, rwArray)

\* the name mapping of the sheet, cached or made by the request
CachedNameMapping == createNameMapping(Deref(CachedHeap, 1), FacultyHeader)

\* the request is over: what it allocated is garbage, the cached objects stay
CommitHeap(h) ==
    /\ rwRows' = SubSeq(h.rows, 1, Len(rwRows))
    /\ rwArray' = h.arrays[1]
    /\ UNCHANGED <<rwFetched, rowRest>>

\* POST /aggregate: computeAnalytics
RowsGetAnalytics(filters) ==
    LET nameMapping == CachedNameMapping
        processed == applyNameMappingHeap(CachedHeap, 1, FacultyHeader,
                                          nameMapping.mapping)
        filtered == applyFiltersHeap(processed.heap, processed.array, filters,
                                     Some(nameMapping), FacultyHeader)
        filteredData == Deref(filtered.heap, filtered.array)
    IN  /\ CommitHeap(filtered.heap)
        /\ rwLast' = [op |-> "analytics",
                      rows |-> AnalyticsOfRows(filteredData, Headers).totalResponses,
                      renamed |-> Cardinality({ i \in 1..Len(filteredData) :
                                    ORIGINAL_NAME_KEY \in DOMAIN filteredData[i] })]

\* POST /data: getFilteredData
RowsGetFilteredData(filters, page) ==
    LET filtered == applyFiltersHeap(CachedHeap, 1, filters,
                                     Some(CachedNameMapping), FacultyHeader)
        paginated == sliceHeap(filtered.heap, filtered.array,
                               (page - 1) * PAGE_SIZE, page * PAGE_SIZE)
    IN  /\ CommitHeap(paginated.heap)
        /\ rwLast' = [op |-> "data",
                      rows |-> Len(Deref(paginated.heap, paginated.array)),
                      renamed |-> 0]

\* POST /export: getFilteredDataForExport
RowsGetFilteredDataForExport(filters) ==
    LET filtered == applyFiltersHeap(CachedHeap, 1, filters,
                                     Some(CachedNameMapping), FacultyHeader)
    IN  /\ CommitHeap(filtered.heap)
        /\ rwLast' = [op |-> "export",
                      rows |-> Len(Deref(filtered.heap, filtered.array)),
                      renamed |-> 0]

\* POST /metadata: buildMetadata reads the rows
RowsGetMetadata ==
    /\ CommitHeap(CachedHeap)
    /\ rwLast' = [op |-> "metadata",
                  rows |-> Cardinality(DOMAIN MetadataFilters(Headers,
                                                   Deref(CachedHeap, 1))),
                  renamed |-> 0]

\* POST /name-mappings: getNameMappings reads the rows
RowsGetNameMappings ==
    /\ CommitHeap(CachedHeap)
    /\ rwLast' = [op |-> "mappings",
                  rows |-> CachedNameMapping.totalNormalized,
                  renamed |-> 0]

NextRows ==
    \/ \E f \in RowFilters : RowsGetAnalytics(f)
    \/ \E f \in RowFilters, page \in 1..MaxPage : RowsGetFilteredData(f, page)
    \/ \E f \in RowFilters : RowsGetFilteredDataForExport(f)
    \/ RowsGetMetadata
    \/ RowsGetNameMappings

SpecRows == InitRows /\ [][NextRows]_vars

----------------------------------------------------------------------------
(* SpecOverlay: the merged-names routes on the user record.  mergedNames   *)
(* is a Mixed path: a request loads the record, changes its copy, marks    *)
(* the path modified and saves, and the save writes the whole of           *)
(* mergedNames.  The overlay of a sheet is the set of its merges.          *)

MaxOverlayRequests == 3
MaxOverlayInFlight == 2

SheetIds == {"s1", "s2"}

RaoMerge == [category |-> "Faculty", canonical |-> "Rao", variants |-> {"Dr Rao"}]
MathsMerge == [category |-> "Course", canonical |-> "Maths", variants |-> {"Math"}]
OverlayBodies == { {}, {RaoMerge}, {RaoMerge, MathsMerge} }
MergeNames == { <<RaoMerge.category, RaoMerge.canonical>>,
                <<MathsMerge.category, MathsMerge.canonical>> }

\* user.mergedNames[sheetId] = mergedNames
putSheetMergedNames(mergedNames, sheetId, body) ==
    [mergedNames EXCEPT ![sheetId] = Some(body)]

\* user.mergedNames[sheetId] && user.mergedNames[sheetId][category]
hasCategory(mergedNames, sheetId, category) ==
    /\ mergedNames[sheetId] # Null
    /\ \E e \in mergedNames[sheetId][1] : e.category = category

\* delete the canonical name, then the category and the sheet when empty
deleteSheetMerge(mergedNames, sheetId, category, canonicalName) ==
    LET rest == { e \in mergedNames[sheetId][1] :
                    ~(e.category = category /\ e.canonical = canonicalName) }
    IN  [mergedNames EXCEPT ![sheetId] = IF rest = {} THEN Null ELSE Some(rest)]

\* markModified('mergedNames') and save(): the stored path becomes the copy
saveMergedNames(stored, copy) == copy

InitOverlay ==
    /\ ovDoc = [s \in SheetIds |-> Null]
    /\ ovReqs = <<>>
    /\ ovIssued = 0
    /\ ovLast = [op |-> "none"]
    /\ OverlayRestIdle

OverlayRoom ==
    /\ ovIssued < MaxOverlayRequests
    /\ Cardinality(DOMAIN ovReqs) < MaxOverlayInFlight

\* PUT /merged-names/:sheetId up to its await of user.save()
PutSheetMergedNames(sheetId, body) ==
    /\ OverlayRoom
    /\ ovIssued' = ovIssued + 1
    /\ ovReqs' = Insert(ovReqs, FreeId(DOMAIN ovReqs),
                        [op |-> "put", sheetId |-> sheetId,
                         user |-> putSheetMergedNames(ovDoc, sheetId, body)])
    /\ ovLast' = [op |-> "load", sheetId |-> sheetId]
    /\ UNCHANGED <<ovDoc, overlayRest>>

\* DELETE /merged-names/:sheetId/:category/:canonicalName up to its await
\* of user.save(), or to its response when there is nothing to delete
DeleteSheetMerge(sheetId, category, canonicalName) ==
    /\ OverlayRoom
    /\ ovIssued' = ovIssued + 1
    /\ IF hasCategory(ovDoc, sheetId, category)
       THEN /\ ovReqs' = Insert(ovReqs, FreeId(DOMAIN ovReqs),
                                [op |-> "delete", sheetId |-> sheetId,
                                 user |-> deleteSheetMerge(ovDoc, sheetId, category,
                                                           canonicalName)])
            /\ ovLast' = [op |-> "load", sheetId |-> sheetId]
       ELSE /\ ovReqs' = ovReqs
            /\ ovLast' = [op |-> "nothing", sheetId |-> sheetId]
    /\ UNCHANGED <<ovDoc, overlayRest>>

\* user.save() of a request writes the record
UserSave(id) ==
    /\ id \in DOMAIN ovReqs
    /\ ovDoc' = saveMergedNames(ovDoc, ovReqs[id].user)
    /\ ovReqs' = Remove(ovReqs, {id})
    /\ ovLast' = [op |-> "save", by |-> ovReqs[id].op,
                  sheetId |-> ovReqs[id].sheetId,
                  before |-> ovDoc, after |-> ovDoc']
    /\ UNCHANGED <<ovIssued, overlayRest>>

NextOverlay ==
    \/ \E sheetId \in SheetIds, body \in OverlayBodies :
            PutSheetMergedNames(sheetId, body)
    \/ \E sheetId \in SheetIds, m \in MergeNames :
            DeleteSheetMerge(sheetId, m[1], m[2])
    \/ \E id \in 1..MaxOverlayInFlight : UserSave(id)

SpecOverlay == InitOverlay /\ [][NextOverlay]_vars

----------------------------------------------------------------------------
(* Properties                                                              *)

\* the name mapping of the current snapshot and the group of one variant
SnapshotMapping == createNameMapping(dsData.data, FacultyHeader)
GroupOf(nm, v) == SeqToSet(nm.reverseMapping[nm.mapping[v]])
RowsOfNames(names) ==
    SelectSeq(dsData.data, LAMBDA row : trim(row[FacultyHeader]) \in names)
ActiveKeys(filters) == { k \in DOMAIN filters : filters[k] # <<>> }

\* C1: every distinct raw variant handed to groupSimilarNames is in the
\* variants list of exactly one output group (at exactly one position), and
\* the union of the groups' variants is the set of distinct input names.
C1_GroupsPartitionInput ==
    grPc = "done" =>
        LET inputNames == { grIn[i].name : i \in 1..Len(grIn) }
            places(n) == { <<g, k>> \in (1..Len(grOut)) \X (1..MaxVariants + 1) :
                              /\ k <= Len(grOut[g].variants)
                              /\ grOut[g].variants[k] = n }
        IN  /\ \A n \in inputNames : Cardinality(places(n)) = 1
            /\ UNION { SeqToSet(grOut[g].variants) : g \in 1..Len(grOut) } = inputNames

C1_Witness ==
    /\ grPc = "done"
    /\ Len(grOut) = 2
    /\ \E g \in 1..Len(grOut) : Len(grOut[g].variants) = 2

\* C2: getFilteredData and getFilteredDataForExport with the faculty column
\* filtered by a single variant v of a name group G return all rows whose
\* trimmed faculty cell is a member of G (what filtering by all of G returns).
C2_OneVariantSelectsWholeGroup ==
    (/\ dsResp.op \in {"filtered", "export"}
     /\ ActiveKeys(dsResp.filters) = {FacultyHeader}
     /\ Len(dsResp.filters[FacultyHeader]) = 1
     /\ dsResp.filters[FacultyHeader][1] \in DOMAIN SnapshotMapping.mapping)
    => LET v == dsResp.filters[FacultyHeader][1]
           expected == RowsOfNames(GroupOf(SnapshotMapping, v))
       IN  /\ dsResp.totalRows = Len(expected)
           /\ dsResp.op = "export" => dsResp.data = expected
           /\ dsResp.op = "filtered" =>
                dsResp.data = Slice(expected, (dsResp.page - 1) * PAGE_SIZE,
                                    (dsResp.page - 1) * PAGE_SIZE + PAGE_SIZE)

RECURSIVE SumOfCells(_, _)
SumOfCells(rows, h) ==
    IF rows = <<>> THEN 0 ELSE Head(rows)[h] + SumOfCells(Tail(rows), h)

\* C3: getAnalytics with the faculty column filtered by one original spelling
\* v aggregates all rows of v's name group: totalResponses is their number and
\* the faculty rollup holds the group's canonical record, whose feedbackCount
\* is that number and whose score is the mean of their ratings.
C3_AnalyticsCoversWholeGroup ==
    (/\ dsResp.op = "analytics"
     /\ ActiveKeys(dsResp.filters) = {FacultyHeader}
     /\ Len(dsResp.filters[FacultyHeader]) = 1
     /\ dsResp.filters[FacultyHeader][1] \in DOMAIN SnapshotMapping.mapping)
    => LET v == dsResp.filters[FacultyHeader][1]
           rows == RowsOfNames(GroupOf(SnapshotMapping, v))
       IN  /\ dsResp.totalResponses = Len(rows)
           /\ \E i \in 1..Len(dsResp.facultyScores) :
                /\ dsResp.facultyScores[i].name = SnapshotMapping.mapping[v]
                /\ dsResp.facultyScores[i].feedbackCount = Len(rows)
                /\ dsResp.facultyScores[i].score =
                      Round2(SumOfCells(rows, QuestionHeader), Len(rows))

\* C4: normalizeName(normalizeName(x)) = normalizeName(x).
C4_NormalizeIdempotent ==
    nmPc = "twice" => nmTwice = nmOnce

\* C5: when the faculty category has an overlay entry and the selection is
\* exactly what one click on that entry's display option selects, the rows
\* returned are the rows of the overlay entry's variants and no others.
C5_OverlaySelectionReturnsOverlayRows ==
    \A e \in SeqToSet(CategoryMerges(dsMerged, FacultyHeader)) :
        (/\ dsResp.op \in {"filtered", "export"}
         /\ dsResp.op = "filtered" => dsResp.page = 1
         /\ FacultyHeader \in DOMAIN dsDynamicFilters
         /\ dsResp.filters = handleMergedOptionChange(<<>>, FacultyHeader,
               SelectSeq(dsDynamicFilters[FacultyHeader], LAMBDA opt :
                  FoundCanonical(CategoryMerges(dsMerged, FacultyHeader), opt)
                      = e.canonical))
         /\ ActiveKeys(dsResp.filters) = {FacultyHeader})
        => dsResp.data = RowsOfNames(SeqToSet(e.variants))

RECURSIVE IsSubsequence(_, _)
IsSubsequence(a, b) ==
    IF a = <<>> THEN TRUE
    ELSE IF b = <<>> THEN FALSE
    ELSE IF Head(a) = Head(b) THEN IsSubsequence(Tail(a), Tail(b))
    ELSE IsSubsequence(a, Tail(b))

\* C10: getFilteredDataForExport with an empty filter state returns the
\* source rows unchanged, totalRows of them; with any filter state it returns
\* an order-preserving subsequence of the source rows (original cell values).
C10_ExportPreservesSourceRows ==
    dsResp.op = "export" =>
        /\ ActiveKeys(dsResp.filters) = {} =>
              /\ dsResp.data = dsData.data
              /\ dsResp.totalRows = dsData.totalRows
        /\ IsSubsequence(dsResp.data, dsData.data)
        /\ dsResp.totalRows = Len(dsResp.data)

C10_Witness ==
    /\ dsResp.op = "export"
    /\ ActiveKeys(dsResp.filters) = {FacultyHeader}
    /\ Len(dsResp.data) = 2
    /\ Len(dsData.data) = 3
    /\ dsResp.data[1][FacultyHeader] = DrRao
    /\ dsResp.data[2][FacultyHeader] = RaoSir

FgFetches == { id \in DOMAIN fetches : fetches[id].kind = "fg" }

\* C6: whenever runs wait in getSheetData for uncached sheet data, exactly
\* one fetch started by getSheetData is in flight, it is the one registered
\* in pendingFetches and every waiting run waits on it; when it settles,
\* every request that waited on it is answered with its outcome.
C6_ConcurrentCallersShareOneFetch ==
    /\ Cardinality(FgFetches) <= 1
    /\ \A t \in DOMAIN tasks :
          /\ tasks[t].waitOn \in FgFetches
          /\ pendingFetches = Some(tasks[t].waitOn)
    /\ (lastEvent.type = "fetchDone" /\ lastEvent.kind = "fg") =>
          \A t \in DOMAIN lastEvent.resumed :
              lastEvent.resumed[t].kind = "fg" =>
                  \E r \in lastEvent.responses :
                      /\ r.fkey = lastEvent.resumed[t].fkey
                      /\ r.ok = lastEvent.ok
                      /\ r.value.data = lastEvent.value

C6_Witness ==
    /\ lastEvent.type = "fetchDone"
    /\ lastEvent.kind = "fg"
    /\ lastEvent.ok
    /\ Cardinality(DOMAIN lastEvent.resumed) >= 2
    /\ \A t \in DOMAIN lastEvent.resumed : lastEvent.resumed[t].kind = "fg"

CachedAnswer ==
    {[fkey |-> lastEvent.fkey, ok |-> TRUE, value |-> lastEvent.entry[1].value]}

\* C7 as stated: a getAnalytics call that finds its entry within the TTL
\* answers with the cached value and starts no recomputation and no fetch.
C7_CachedCallStartsNothing ==
    (lastEvent.type = "request" /\ lastEvent.hit) =>
        /\ lastEvent.responses = CachedAnswer
        /\ lastEvent.started = 0
        /\ lastEvent.fetchesStarted = 0

\* C7: a getAnalytics call that finds its entry within the TTL answers with
\* the cached value; it starts no recomputation and no fetch when the entry
\* has at least REFRESH_THRESHOLD seconds left, and starts one recomputation
\* when it has less.
C7_CachedCallStartsNothingUnlessExpiring ==
    (lastEvent.type = "request" /\ lastEvent.hit) =>
        /\ lastEvent.responses = CachedAnswer
        /\ lastEvent.entry[1].ttl >= REFRESH_THRESHOLD =>
              /\ lastEvent.started = 0
              /\ lastEvent.fetchesStarted = 0
        /\ lastEvent.entry[1].ttl < REFRESH_THRESHOLD => lastEvent.started = 1

C7_Witness ==
    /\ lastEvent.type = "request"
    /\ lastEvent.hit
    /\ lastEvent.entry[1].ttl = REFRESH_THRESHOLD
    /\ lastEvent.started = 0

\* C8: once a value has been cached for an analytics key, every request for
\* that key is answered with a value, never with an error, whatever fetches
\* fail and however long ago the value was cached.
C8_CachedKeyNeverAnswersError ==
    \A r \in lastEvent.responses :
        lastGood[AnalyticsKey(r.fkey)] # Null => r.ok

\* C9: a failed background refresh leaves the entry it was to refresh as it
\* was and answers nobody; the request that started a background refresh is
\* answered with the cached value (for a sheet-data refresh, with analytics
\* of the cached sheet data), never with an error.
C9_FailedRefreshKeepsEntryAndAnswer ==
    /\ \A k \in lastEvent.failures :
          /\ cache[k] = lastEvent.before[k]
          /\ \A r \in lastEvent.responses :
                \E t \in DOMAIN lastEvent.resumed :
                    /\ lastEvent.resumed[t].kind = "fg"
                    /\ lastEvent.resumed[t].fkey = r.fkey
    /\ (lastEvent.type = "request" /\ lastEvent.hit /\ lastEvent.started > 0) =>
          lastEvent.responses = CachedAnswer
    /\ (lastEvent.type = "request" /\ lastEvent.refreshFetch) =>
          /\ lastEvent.responses # {}
          /\ \A r \in lastEvent.responses : r.ok

C9_Witness ==
    \E k \in lastEvent.failures \cap AnalyticsKeys :
        /\ cache[k] # Null
        /\ lastEvent.before[k] # Null

----------------------------------------------------------------------------
(* groupSimilarNames: seeding order and canonical labels                   *)

\* the occurrence count groupSimilarNames works with for one raw variant
\* (count || 1 of its entry; the largest one when the input lists it twice)
VariantCount(v) ==
    LET counts == { IF grIn[i].count = 0 THEN 1 ELSE grIn[i].count :
                        i \in { j \in 1..Len(grIn) : grIn[j].name = v } }
    IN  CHOOSE c \in counts : \A d \in counts : d <= c

SeedOf(g) == grOut[g].variants[1]
AssignedBefore(g) == UNION { SeqToSet(grOut[h].variants) : h \in 1..(g - 1) }
MatchesSeed(g, v) ==
    NamesMatch(normalizeName(SeedOf(g)), normalizeName(v), grThreshold)

\* C19: greedy seeding.  The seed (first variant) of every group has the
\* highest count among the variants not assigned to an earlier group, every
\* other member of a group matches the group's seed, and no variant matches
\* the seed of a group earlier than its own.
C19_GreedySeeding ==
    grPc = "done" =>
        \A g \in 1..Len(grOut) :
            /\ \A i \in 1..Len(grIn) :
                  grIn[i].name \notin AssignedBefore(g)
                      => VariantCount(grIn[i].name) <= VariantCount(SeedOf(g))
            /\ \A k \in 2..Len(grOut[g].variants) :
                  MatchesSeed(g, grOut[g].variants[k])
            /\ \A k \in 1..Len(grOut[g].variants) :
                  \A h \in 1..(g - 1) : ~MatchesSeed(h, grOut[g].variants[k])

\* two groups, the first seeded by a variant that is not first in the input,
\* the second holding a variant that was scanned and left by the first seed
C19_Witness ==
    /\ grPc = "done"
    /\ Len(grOut) = 2
    /\ Len(grOut[1].variants) = 2
    /\ SeedOf(1) # grIn[1].name
    /\ VariantCount(SeedOf(1)) > VariantCount(grIn[1].name)

\* C20: the canonical label of every group is normalizeName(w) for a variant
\* w of the group with the highest count and, among the variants of that
\* count, a longest normalized form.
C20_CanonicalIsMostCommonLongest ==
    grPc = "done" =>
        \A g \in 1..Len(grOut) :
            \E w \in SeqToSet(grOut[g].variants) :
                /\ grOut[g].canonical = normalizeName(w)
                /\ \A u \in SeqToSet(grOut[g].variants) :
                      /\ VariantCount(u) <= VariantCount(w)
                      /\ VariantCount(u) = VariantCount(w)
                            => Len(normalizeName(u)) <= Len(normalizeName(w))

\* a group whose seed ties on count with a member of longer normalized form,
\* which gives the label
C20_Witness ==
    /\ grPc = "done"
    /\ \E g \in 1..Len(grOut) :
          /\ Len(grOut[g].variants) >= 2
          /\ \E u \in SeqToSet(grOut[g].variants) :
                /\ VariantCount(u) = VariantCount(SeedOf(g))
                /\ Len(normalizeName(u)) > Len(normalizeName(SeedOf(g)))
                /\ grOut[g].canonical = normalizeName(u)

----------------------------------------------------------------------------
(* applyFilters and categories that are not columns                        *)

\* the filters object without one category
WithoutCategory(filters, category) ==
    [k \in DOMAIN filters \ {category} |-> filters[k]]

\* C11: a filters entry whose category is not a column of the sheet is
\* ignored: applyFilters returns the rows it returns for the filters object
\* with that entry removed.
C11_AbsentColumnIgnored ==
    afPc = "done" =>
        \A k \in DOMAIN afFilters \ SeqToSet(Headers) :
            afOut = applyFilters(afData, WithoutCategory(afFilters, k),
                                 Some(createNameMapping(afData, FacultyHeader)),
                                 FacultyHeader)

----------------------------------------------------------------------------
(* getAnalytics on an empty row set                                         *)

\* the rows the last getAnalytics request aggregated
AggregatedRows ==
    FilterCanonicalised(dsData, dsNameMapping[1], FacultyHeader, dsResp.filters)

\* C12: when the row set to aggregate is empty (a sheet with a header row and
\* no data row, or a filter that leaves no row), getAnalytics answers with
\* totalResponses = 0, averageRating = 0 and every rollup list empty.
C12_EmptyRowSetGivesZeroRecord ==
    (dsResp.op = "analytics" /\ AggregatedRows = <<>>) =>
        /\ dsResp.analytics.totalResponses = 0
        /\ dsResp.analytics.averageRating = 0
        /\ \A f \in {"questionScores", "facultyScores", "departmentWise",
                      "courseWise", "sectionWise", "semesterWise", "timeTrends"} :
              /\ f \in DOMAIN dsResp.analytics
              /\ dsResp.analytics[f] = <<>>

\* getAnalytics answered for a sheet that has rows, none of which was left
\* by the filter of the request
C12_Witness ==
    /\ dsResp.op = "analytics"
    /\ dsData.data # <<>>
    /\ ActiveKeys(dsResp.filters) # {}
    /\ AggregatedRows = <<>>
    /\ dsResp.analytics.totalResponses = 0

\* getAnalytics answered for a sheet with a header row and no data row
C12_HeaderOnlySheet ==
    /\ dsResp.op = "analytics"
    /\ dsData.data = <<>>
    /\ dsResp.analytics = EmptyAnalytics

----------------------------------------------------------------------------
(* getAnalytics with a filter against getAnalytics on the filtered rows    *)

\* the values a selection of one category stands for: the selected values,
\* a selected faculty name standing for its whole name group
SelectedValues(filters, k) ==
    IF k = FacultyHeader
    THEN UNION { IF filters[k][i] \in DOMAIN SnapshotMapping.mapping
                 THEN GroupOf(SnapshotMapping, filters[k][i])
                 ELSE { filters[k][i] } : i \in 1..Len(filters[k]) }
    ELSE SeqToSet(filters[k])

\* the rows of the snapshot that match a filter state
MatchingRows(filters) ==
    SelectSeq(dsData.data, LAMBDA row :
        \A k \in ActiveKeys(filters) :
            trim(CellOf(row, k)) \in SelectedValues(filters, k))

\* score and feedbackCount of one faculty in a faculty rollup, Null when the
\* rollup has no record of that name
FacultyAggregate(facultyScores, X) ==
    IF \E i \in 1..Len(facultyScores) : facultyScores[i].name = X
    THEN LET i == CHOOSE j \in 1..Len(facultyScores) : facultyScores[j].name = X
         IN  Some([score |-> facultyScores[i].score,
                   feedbackCount |-> facultyScores[i].feedbackCount])
    ELSE Null

FacultyNames(facultyScores) ==
    { facultyScores[i].name : i \in 1..Len(facultyScores) }

\* getAnalytics without a filter on the sheet that holds exactly these rows
UnfilteredAnalyticsOf(rows) ==
    computeAnalytics(SheetData(rows), Null, <<>>).facultyScores

\* C13: for every faculty X, the aggregate of X that getAnalytics returns for
\* a filter state equals the aggregate of X that getAnalytics without a
\* filter returns on the sheet holding exactly the rows that match the
\* filter state.
C13_FilterComposable ==
    dsResp.op = "analytics" =>
        \A X \in FacultyNames(dsResp.facultyScores)
                 \cup FacultyNames(UnfilteredAnalyticsOf(MatchingRows(dsResp.filters))) :
            FacultyAggregate(dsResp.facultyScores, X) =
                FacultyAggregate(UnfilteredAnalyticsOf(MatchingRows(dsResp.filters)), X)

----------------------------------------------------------------------------
(* clearNameMappingCache                                                    *)

\* the name-mapping, metadata, analytics and filtered-data keys of one sheet
DependentKeys(sheetUrl) ==
    { NameMappingKeyOf(sheetUrl), MetadataKeyOf(sheetUrl) }
        \cup { AnalyticsKeyOf(sheetUrl, fk) : fk \in FilterKeys }
        \cup { FilteredKeyOf(sheetUrl, fk) : fk \in FilterKeys }

\* C14: directly after clearNameMappingCache(url) the cache holds no
\* name-mapping, metadata, analytics or filtered-data key of that url, and
\* the first request for that url after it creates the name mapping anew.
C14_ClearRemovesDependentEntries ==
    /\ ccLast.op = "clear" => ccCache \cap DependentKeys(ccLast.url) = {}
    /\ (ccLast.op = "request" /\ ccLast.afterClear) => ccLast.createdNameMapping

\* a clear that removed entries of all four kinds of its url while an entry
\* of the other url stays
C14_Witness ==
    /\ ccLast.op = "clear"
    /\ DependentKeys(ccLast.url) \subseteq ccLast.removed
    /\ ccCache # {}

----------------------------------------------------------------------------
(* The merge overlay                                                        *)

FacultyMerges == CategoryMerges(mgMerged, FacultyHeader)

\* C15: in the overlay of a category no variant is listed under two
\* canonical names and no canonical name has an empty variant list; directly
\* after a merge of the names S under the canonical name c the entry of c
\* lists exactly S and no other entry lists a name of S.
C15_OverlayEntriesDisjoint ==
    /\ \A i, j \in 1..Len(FacultyMerges) :
          i # j => /\ FacultyMerges[i].canonical # FacultyMerges[j].canonical
                   /\ SeqToSet(FacultyMerges[i].variants)
                         \cap SeqToSet(FacultyMerges[j].variants) = {}
    /\ \A i \in 1..Len(FacultyMerges) : FacultyMerges[i].variants # <<>>
    /\ (mgLast.op = "merge" /\ ~mgLast.rejected) =>
          \A i \in 1..Len(FacultyMerges) :
              IF FacultyMerges[i].canonical = mgLast.canonical
              THEN FacultyMerges[i].variants = mgLast.selected
              ELSE SeqToSet(FacultyMerges[i].variants)
                     \cap SeqToSet(mgLast.selected) = {}

\* a merge that took a name away from an entry made before, which stays
\* under its own canonical name
C15_Witness ==
    /\ mgLast.op = "merge"
    /\ ~mgLast.rejected
    /\ Len(FacultyMerges) = 2
    /\ \E e \in SeqToSet(CategoryMerges(mgLast.merged, FacultyHeader)) :
          /\ e.canonical # mgLast.canonical
          /\ SeqToSet(e.variants) \cap SeqToSet(mgLast.selected) # {}

\* the request carries a merge with fewer than 2 names or no canonical name
InvalidMergeRequest ==
    \/ /\ mgLast.op = "merge"
       /\ mgLast.canonical = <<>> \/ Len(mgLast.selected) < 2
    \/ /\ mgLast.op = "put"
       /\ \E e \in SeqToSet(CategoryMerges(mgLast.body, FacultyHeader)) :
             e.canonical = <<>> \/ Len(e.variants) < 2

\* C16: a merge request with fewer than 2 names or an empty canonical name
\* is rejected, and leaves the persisted overlay and the local overlay as
\* they were, whether it is made in the dashboard or sent to the PUT route.
C16_InvalidMergeRejected ==
    InvalidMergeRequest =>
        /\ mgLast.rejected
        /\ mgPersisted = mgLast.persisted
        /\ mgMerged = mgLast.merged

----------------------------------------------------------------------------
(* The name mapping and the snapshot of one request                        *)

\* the spreadsheet as fetchSheetDataRaw reads it at each version: every edit
\* appends the answer of one more student, with a name not written before
EditedRows == << SheetRow(DrRao, CS, 5), SheetRow(Tanvi, EE, 4),
                 SheetRow(RAO, CS, 3), SheetRow(TanviMadaan, EE, 5) >>
SheetAtVersion(v) ==
    SheetData(SubSeq(EditedRows, 1, IF v < Len(EditedRows) THEN v
                                     ELSE Len(EditedRows)))

\* the distinct trimmed non-empty faculty names of a snapshot
SnapshotNames(sheet) ==
    LET counted == CountNames(sheet.data, FacultyHeader, <<>>)
    IN  { counted[i].name : i \in 1..Len(counted) }

\* the groups of the mapping built from version m partition the names of
\* version d
MappingPartitions(m, d) ==
    LET groups == createNameMapping(SheetAtVersion(m).data, FacultyHeader).groups
        names == SnapshotNames(SheetAtVersion(d))
    IN  /\ UNION { SeqToSet(groups[g].variants) : g \in 1..Len(groups) } = names
        /\ \A n \in names :
              Cardinality({ g \in 1..Len(groups) :
                               n \in SeqToSet(groups[g].variants) }) = 1

\* the answers computeAnalytics computed in the step just taken
ComputedResponses ==
    IF \/ lastEvent.type = "fetchDone"
       \/ lastEvent.type = "request" /\ ~lastEvent.hit
    THEN { r \in lastEvent.responses : r.ok }
    ELSE {}

\* C17: in every reachable state, also after the sheet data was fetched
\* again while the name mapping was still cached, the name mapping a request
\* uses partitions exactly the distinct non-empty faculty names of the
\* snapshot the same request aggregates.
C17_MappingPartitionsRequestSnapshot ==
    \A r \in ComputedResponses :
        MappingPartitions(r.value.nameMapping, r.value.data)

----------------------------------------------------------------------------
(* Background refresh of an entry about to expire                          *)

\* the request just answered read an analytics entry with less than
\* REFRESH_THRESHOLD seconds left
ReadExpiringEntry ==
    /\ lastEvent.type = "request"
    /\ lastEvent.hit
    /\ lastEvent.entry[1].ttl < REFRESH_THRESHOLD

\* the entry of a key holds the value computed from this data, with all of
\* its time to live
FreshEntry(key, data) ==
    /\ cache[key] # Null
    /\ cache[key][1].ttl = ANALYTICS_CACHE_TTL
    /\ cache[key][1].value.data = data

\* C18: a request that reads a cached entry with less than 120 seconds left
\* is answered with the cached value in the same step, and a recompute is
\* started; when the recompute succeeds (at once on cached sheet data, or
\* when the fetch it waits for resolves) the entry holds the new value with
\* its full time to live.
C18_ExpiringEntryServedAndRefreshed ==
    /\ ReadExpiringEntry =>
          /\ [fkey |-> lastEvent.fkey, ok |-> TRUE,
              value |-> lastEvent.entry[1].value] \in lastEvent.responses
          /\ lastEvent.started = 1
          /\ \/ \E t \in DOMAIN tasks : /\ tasks[t].kind = "bg"
                                        /\ tasks[t].fkey = lastEvent.fkey
             \/ /\ cache[SheetKey] # Null
                /\ FreshEntry(AnalyticsKey(lastEvent.fkey), cache[SheetKey][1].value)
    /\ (lastEvent.type = "fetchDone" /\ lastEvent.ok) =>
          /\ \A t \in DOMAIN lastEvent.resumed :
                lastEvent.resumed[t].kind = "bg" =>
                    FreshEntry(AnalyticsKey(lastEvent.resumed[t].fkey),
                               lastEvent.value)
          /\ lastEvent.kind = "bg" =>
                cache[SheetKey] = Some([value |-> lastEvent.value,
                                        ttl |-> SHEET_DATA_CACHE_TTL])

\* the fetch a background recompute waited for resolved, and the recompute
\* put a value computed from newer data in the place of the entry
C18_Witness ==
    /\ lastEvent.type = "fetchDone"
    /\ lastEvent.ok
    /\ \E t \in DOMAIN lastEvent.resumed :
          LET key == AnalyticsKey(lastEvent.resumed[t].fkey)
          IN  /\ lastEvent.resumed[t].kind = "bg"
              /\ lastEvent.before[key] # Null
              /\ lastEvent.before[key][1].ttl < REFRESH_THRESHOLD
              /\ cache[key][1].value # lastEvent.before[key][1].value
              /\ cache[key][1].ttl = ANALYTICS_CACHE_TTL

----------------------------------------------------------------------------
(* applyFilters                                                            *)

\* the mapping applyFilters is given for the rows filtered
FilterMapping == createNameMapping(afData, FacultyHeader)

\* the match-set of one category: the selected values, and for the faculty
\* column every variant listed under the canonical name of a selected value
MatchSet(category) ==
    LET selected == SeqToSet(afFilters[category])
    IN  IF category # FacultyHeader THEN selected
        ELSE UNION { LET c == IF s \in DOMAIN FilterMapping.mapping
                              THEN FilterMapping.mapping[s] ELSE s
                     IN  IF c \in DOMAIN FilterMapping.reverseMapping
                         THEN SeqToSet(FilterMapping.reverseMapping[c])
                         ELSE {s} : s \in selected }

SelectedCategories == { c \in DOMAIN afFilters : afFilters[c] # <<>> }

\* C21: applyFilters returns, in their order, exactly the rows whose trimmed
\* cell is in the match-set of every category with a non-empty selection;
\* a category with an empty selection does not constrain, and with no
\* selection at all the rows come back unchanged.
C21_RowsMatchEverySelectedCategory ==
    afPc = "done" =>
        /\ afOut = SelectSeq(afData, LAMBDA row :
                      \A c \in SelectedCategories :
                          trim(CellOf(row, c)) \in MatchSet(c))
        /\ SelectedCategories = {} => afOut = afData

\* two categories are selected and a third has an empty selection; a row
\* passes through a sibling of the selected faculty name, another row fails
\* one category only
C21_Witness ==
    /\ afPc = "done"
    /\ {FacultyHeader, DeptHeader} \subseteq SelectedCategories
    /\ DOMAIN afFilters \ SelectedCategories # {}
    /\ \E i \in 1..Len(afOut) :
          trim(afOut[i][FacultyHeader]) \notin SeqToSet(afFilters[FacultyHeader])
    /\ \E i \in 1..Len(afData) :
          /\ trim(afData[i][FacultyHeader]) \in MatchSet(FacultyHeader)
          /\ afData[i] \notin SeqToSet(afOut)

----------------------------------------------------------------------------
(* The time trend                                                          *)

\* the rows with a date
DatedRows == { j \in 1..Len(ttData) : ttData[j][TimestampHeader] # <<>> }

\* the month+week-of-month buckets present in the rows, as <<month, week>>;
\* a bucket is as recent as the latest of its rows
TrendBuckets ==
    { <<ttData[i][TimestampHeader].month, WeekOfMonth(ttData[i][TimestampHeader])>> :
      i \in DatedRows }

LatestYear(b) ==
    LET years == { ttData[i][TimestampHeader].year :
                     i \in { j \in DatedRows :
                               /\ ttData[j][TimestampHeader].month = b[1]
                               /\ WeekOfMonth(ttData[j][TimestampHeader]) = b[2] } }
    IN  CHOOSE y \in years : \A z \in years : z <= y

Earlier(a, b) ==
    \/ LatestYear(a) < LatestYear(b)
    \/ LatestYear(a) = LatestYear(b) /\ a[1] < b[1]
    \/ LatestYear(a) = LatestYear(b) /\ a[1] = b[1] /\ a[2] < b[2]

RECURSIVE Chronological(_)
Chronological(buckets) ==
    IF buckets = {} THEN <<>>
    ELSE LET first == CHOOSE x \in buckets : \A y \in buckets \ {x} : Earlier(x, y)
         IN  <<first>> \o Chronological(buckets \ {first})

BucketLabel(b) == MonthShort[b[1]] \o <<" ", "W">> \o <<DigitOf(b[2])>>

\* C22: the trend lists the (at most) 10 most recent month+week-of-month
\* buckets present in the rows, in ascending order of time, also when the
\* rows span several months or years.
C22_TrendIsMostRecentAscending ==
    (ttPc = "done" /\ \E i \in 1..Len(ttData) : ttData[i][QuestionHeader] # 0) =>
        LET recent == LastN(Chronological(TrendBuckets), TREND_PERIODS)
        IN  [i \in 1..Len(ttOut) |-> ttOut[i].label]
                = [i \in 1..Len(recent) |-> BucketLabel(recent[i])]

\* the rows of a bucket of the trend that hold a valid question value
ValidRowsOf(label) ==
    { j \in DatedRows : /\ getWeekKey(ttData[j][TimestampHeader]) = label
                        /\ CellScore(ttData[j][QuestionHeader]) # 0 }

\* C23: every aggregate record of the analytics (here the time-bucket
\* records) has a defined average between 1.0 and 5.0, computed from at
\* least one row with a valid question value; a bucket without such a row
\* yields no record with an undefined (0/0) average.
C23_AverageDefinedInRange ==
    ttPc = "done" =>
        \A i \in 1..Len(ttOut) :
            /\ ttOut[i].value >= 100
            /\ ttOut[i].value <= 500
            /\ ValidRowsOf(ttOut[i].label) # {}

----------------------------------------------------------------------------
(* Display options                                                         *)

\* the canonical names of the overlay entries an option is a variant of, or
\* equal to
CanonicalsOf(opt) ==
    LET entries == SeqToSet(CategoryMerges(doMerged, FacultyHeader))
    IN  { e.canonical : e \in { x \in entries :
                                  opt \in SeqToSet(x.variants) \/ x.canonical = opt } }

\* the display options that list an option
ListedUnder(opt) ==
    { d \in 1..Len(doOut) : opt \in SeqToSet(doOut[d].originalNames) }

\* C24: display-option resolution partitions the raw options: every raw
\* option is in the originalNames of exactly one display option, under the
\* overlay canonical it is a variant of or equal to, or else under itself.
C24_DisplayOptionsPartition ==
    doPc = "done" =>
        /\ \A i \in 1..Len(doOptions) :
              /\ Cardinality(ListedUnder(doOptions[i])) = 1
              /\ \A d \in ListedUnder(doOptions[i]) :
                    IF CanonicalsOf(doOptions[i]) # {}
                    THEN doOut[d].displayName \in CanonicalsOf(doOptions[i])
                    ELSE doOut[d].displayName = doOptions[i]
        /\ \A d \in 1..Len(doOut) :
              /\ SeqToSet(doOut[d].originalNames) \subseteq SeqToSet(doOptions)
              /\ \A j, k \in 1..Len(doOut[d].originalNames) :
                    j # k => doOut[d].originalNames[j] # doOut[d].originalNames[k]

\* two options fold into one display option, a third stays under itself
C24_Witness ==
    /\ doPc = "done"
    /\ Len(doOptions) = 3
    /\ Len(doOut) = 2
    /\ \E d \in 1..Len(doOut) :
          /\ Len(doOut[d].originalNames) = 2
          /\ doOut[d].displayName \notin SeqToSet(doOut[d].originalNames)
    /\ \E d \in 1..Len(doOut) : doOut[d].originalNames = <<doOut[d].displayName>>

----------------------------------------------------------------------------
(* The suggestion of similar names and the grouping engine                 *)

\* C25: findSimilarNames(a, [b], t) proposes b exactly when
\* groupSimilarNames with the threshold t adds b to the group seeded by a.
C25_SuggestionAgreesWithGrouping ==
    smPc = "grouped" =>
        (smOther \in SeqToSet(smSuggested)
            <=> smOther \in SeqToSet(smGroups[1].variants))

----------------------------------------------------------------------------
(* Question columns                                                        *)

\* the header matches a metadata pattern: it is one, begins with one, or
\* holds both the word special and the word remark
MatchesMetadataPattern(header) ==
    LET lower == trim(toLowerCase(header))
    IN  \/ \E p \in SeqToSet(metadataPatterns) :
              Len(p) <= Len(lower) /\ SubSeq(lower, 1, Len(p)) = p
        \/ includes(lower, Special) /\ includes(lower, Remark)

\* the mapped value of a cell that is a Likert-table entry or parses as a
\* number in [1, 5]; 0 for any other cell
QuestionCellScoreParsed(cell) ==
    IF cell.number /\ cell.tenths >= 10 /\ cell.tenths <= 50
    THEN RoundTenths(cell.tenths)
    ELSE LET value == trim(toLowerCase(CellText(cell)))
         IN  IF value \in DOMAIN LIKERT_MAPPING THEN LIKERT_MAPPING[value]
             ELSE IF parseFloat(value) >= 100 /\ parseFloat(value) <= 500
             THEN RoundTenths(parseFloat(value) \div 10)
             ELSE 0


\* the rows of the column with such a value
RatedRows == { j \in 1..Len(qcCells) : QuestionCellScoreParsed(qcCells[j]) # 0 }

\* C26: a header is a question column exactly when its trimmed length is at
\* least 15, it matches no metadata pattern and one of the first
\* min(100, n) rows holds a Likert-table entry or a number in [1, 5]; a
\* column so classified has a per-question score equal to the mean of the
\* mapped values of its cells with such a value.
C26_QuestionColumnsClassifiedAndScored ==
    /\ qcPc \in {"identified", "scored"} =>
          (qcColumns = <<qcHeader>>
              <=> /\ Len(trim(qcHeader)) >= 15
                  /\ ~MatchesMetadataPattern(qcHeader)
                  /\ RatedRows # {})
    /\ qcPc \in {"identified", "scored"} => qcColumns \in {<<>>, <<qcHeader>>}
    /\ (qcPc = "scored" /\ qcColumns # <<>>) =>
          /\ Len(qcScores) = 1
          /\ qcScores[1].question = qcHeader
          /\ qcScores[1].score =
                Round2(SumSeq([j \in 1..Len(qcCells) |->
                                  QuestionCellScoreParsed(qcCells[j])]),
                       Cardinality(RatedRows))

\* the classification alone
C26_Classification ==
    qcPc \in {"identified", "scored"} =>
        (qcColumns = <<qcHeader>>
            <=> /\ Len(trim(qcHeader)) >= 15
                /\ ~MatchesMetadataPattern(qcHeader)
                /\ RatedRows # {})

----------------------------------------------------------------------------
(* Cached rows                                                             *)

\* C27: no request changes a cached source row or the cached row array:
\* after any sequence of requests the cached array holds the same row
\* objects, with the cell values (raw faculty names included) they had when
\* the sheet was fetched.
C27_CachedRowsUnchanged ==
    /\ rwArray = [i \in 1..Len(rwFetched) |-> i]
    /\ rwRows = rwFetched

\* an analytics request gave rows their canonical name, and the cached rows
\* still hold the raw one
C27_Witness ==
    /\ rwLast.op = "analytics"
    /\ rwLast.renamed > 0
    /\ \E i \in 1..Len(rwRows) :
          CachedNameMapping.mapping[trim(rwRows[i][FacultyHeader])]
              # rwRows[i][FacultyHeader]

----------------------------------------------------------------------------
(* Upstream fetches in flight                                              *)

\* C28: at any time at most one fetchSheetDataRaw call is in flight for the
\* sheet, the fetches of background refreshes counted as well as the
\* foreground ones.
C28_AtMostOneFetchInFlight ==
    Cardinality(DOMAIN fetches) <= 1

(***************************************************************************)
(* Invalidation and the work in flight                                     *)
(***************************************************************************)

\* C29: once an invalidation has completed, no run that was in flight at
\* that moment stores a name mapping or analytics entry derived from sheet
\* data that had been read before it
C29_InvalidationNotUndone ==
    ivLast.type = "deliver" => ivLast.stale = {}

(***************************************************************************)
(* The persisted overlays of a user's sheets                               *)
(***************************************************************************)

\* the persisted merges of a sheet, none when the sheet has no overlay
PersistedEntries(mergedNames, sheetId) ==
    IF mergedNames[sheetId] = Null THEN {} ELSE mergedNames[sheetId][1]

\* C30: the save of a merged-names update or delete for one sheet leaves
\* the persisted overlay of every other sheet of the user as it was
C30_OtherSheetsUnchanged ==
    ovLast.op = "save" =>
        \A s \in SheetIds \ {ovLast.sheetId} :
            PersistedEntries(ovLast.after, s) = PersistedEntries(ovLast.before, s)

====
